---- MODULE Spec2Model ----
(***************************************************************************)
(* Backend-selection and failover gateway (EnhancedAIService), its real    *)
(* client (AIServiceIntegration) and the deterministic simulator           *)
(* (MockAIService).                                                        *)
(*                                                                         *)
(* Text is a sequence of strings: one-character strings for text the code  *)
(* inspects character by character (requirement texts, titles, names) and  *)
(* longer strings for template text the code only copies.                  *)
(***************************************************************************)
EXTENDS Integers, Sequences, FiniteSets, Bags, TLC

VARIABLES
    useMock,            \* EnhancedAIService.useMock : the mode (TRUE = Simulated)
    autoFallback,       \* EnhancedAIService.autoFallback
    responseDelay,      \* MockAIService.responseDelay
    enableRandomErrors, \* MockAIService.enableRandomErrors
    errorRate,          \* MockAIService.errorRate, in hundredths
    mockConfig,         \* the MockAIServiceConfig the simulator was constructed with
    inflight,           \* bag of the gateway calls suspended at an await
    ret,                \* what the last step handed to a caller (NoRet if nothing)
    simCall,            \* the simulator call a direct caller is awaiting
    simRet,             \* what the last direct simulator call returned
    prevGen,            \* history: an earlier generateTest answer of the simulator
                        \* (NoHistory where this history is not kept)
    healthFlip,         \* history ("off" where it is not kept): "never" until
                        \* checkHealth sets the mode to
                        \* Simulated, then "flipped", and "reverted" once
                        \* enableReal has been called after that
    cli,                \* the process of the command-line tool and its terminal
    script              \* the process of the generate-tests script

vars == <<useMock, autoFallback, responseDelay, enableRandomErrors, errorRate,
          mockConfig, inflight, ret, simCall, simRet, prevGen, healthFlip, cli,
          script>>

gatewayVars == <<useMock, autoFallback, inflight, ret>>
mockVars == <<responseDelay, enableRandomErrors, errorRate, mockConfig>>
simVars == <<simCall, simRet>>
histVars == <<prevGen, healthFlip>>
cliVars == <<cli, script>>

-----------------------------------------------------------------------------
(* Bounds of the model *)

\* gateway calls that may be suspended at the same time
MaxInFlight == 2
\* words concatenated into a requirement text handed to the simulator
MaxWords == 2
\* largest value Date.now() takes
MaxClock == 1
\* entries in the answer of the search endpoint
MaxResults == 3

-----------------------------------------------------------------------------
(* Text *)

Range(s) == {s[i] : i \in 1..Len(s)}

\* JS undefined for an optional text argument (distinct from the empty text)
Undefined == <<"<undefined>">>

\* JS truthiness of an optional text: undefined and '' are falsy
Truthy(t) == t # Undefined /\ t # <<>>

UpperSeq == <<"A","B","C","D","E","F","G","H","I","J","K","L","M",
              "N","O","P","Q","R","S","T","U","V","W","X","Y","Z">>
LowerSeq == <<"a","b","c","d","e","f","g","h","i","j","k","l","m",
              "n","o","p","q","r","s","t","u","v","w","x","y","z">>
Digits == {"0","1","2","3","4","5","6","7","8","9"}

LowerOf == [c \in Range(UpperSeq) |->
               LowerSeq[CHOOSE i \in 1..Len(UpperSeq) : UpperSeq[i] = c]]
\* the characters [a-z0-9]
AlnumLower == Range(LowerSeq) \cup Digits

ToLowerChar(c) == IF c \in DOMAIN LowerOf THEN LowerOf[c] ELSE c

\* String.prototype.toLowerCase
toLowerCase(s) == [i \in 1..Len(s) |-> ToLowerChar(s[i])]

\* String.prototype.includes
includes(s, pat) ==
    \E i \in 0..(Len(s) - Len(pat)) : SubSeq(s, i + 1, i + Len(pat)) = pat

\* String.prototype.trim, on text whose only white space is the blank
trim(s) ==
    IF \A i \in 1..Len(s) : s[i] = " " THEN <<>>
    ELSE LET first == CHOOSE i \in 1..Len(s) :
                          s[i] # " " /\ \A j \in 1..(i - 1) : s[j] = " "
             last  == CHOOSE i \in 1..Len(s) :
                          s[i] # " " /\ \A j \in (i + 1)..Len(s) : s[j] = " "
         IN  SubSeq(s, first, last)

\* variant: the title is the requirement text as it came
TestTitle_Literal(requirements) == requirements

\* requirements.toLowerCase().replace(/[^a-z0-9]/g, ' ').trim()
TestTitle(requirements) ==
    LET low == toLowerCase(requirements)
    IN  trim([i \in 1..Len(low) |->
                 IF low[i] \in AlnumLower THEN low[i] ELSE " "])

\* testName.replace(/[^a-z0-9]/gi, '-')
FileStem(testName) ==
    [i \in 1..Len(testName) |->
        IF ToLowerChar(testName[i]) \in AlnumLower
        THEN testName[i] ELSE "-"]

-----------------------------------------------------------------------------
(* MockAIService: templates and classification *)

TemplateHead == "\nimport { test, expect } from '@playwright/test';\n\ntest('"
LoginBody == "', async ({ page }) => { goto /login; fill email; fill password; click login-button; expect dashboard, user-menu, Welcome });"
NavigationBody == "', async ({ page }) => { goto /; expect title, nav; expect 5 nav links; click /about; expect about });"
FormBody == "', async ({ page }) => { goto /contact; fill name; fill email; fill message; click submit; expect success-message });"
ShoppingBody == "', async ({ page }) => { goto /store; expect 10 products; click add-to-cart; expect cart-count; click cart-icon; expect cart });"
DefaultBody == "', async ({ page }) => { goto /; expect title, body, main;\n  // Additional context: "
DefaultTail == "\n  setViewportSize 1280x720; expect nav; setViewportSize 375x667; expect mobile-menu });"
NoContext == "No additional context provided"

kwLogin == <<"l","o","g","i","n">>
kwAuth == <<"a","u","t","h">>
kwNav == <<"n","a","v">>
kwMenu == <<"m","e","n","u">>
kwForm == <<"f","o","r","m">>
kwSubmit == <<"s","u","b","m","i","t">>
kwShop == <<"s","h","o","p">>
kwCart == <<"c","a","r","t">>
kwStore == <<"s","t","o","r","e">>

\* variant: the login template has the context line too
testTemplates_ContextInLogin(requirements, context) ==
    LET title == TestTitle(requirements)
        line == IF Truthy(context) THEN context ELSE <<NoContext>>
    IN  [login      |-> <<TemplateHead>> \o title \o <<LoginBody>> \o line,
         navigation |-> <<TemplateHead>> \o title \o <<NavigationBody>>,
         form       |-> <<TemplateHead>> \o title \o <<FormBody>>,
         shopping   |-> <<TemplateHead>> \o title \o <<ShoppingBody>>,
         default    |-> <<TemplateHead>> \o title \o <<DefaultBody>> \o line
                        \o <<DefaultTail>>]

\* the template literals of generatePlaywrightTest, keyed as in testTemplates
testTemplates(requirements, context) ==
    LET title == TestTitle(requirements)
    IN  [login      |-> <<TemplateHead>> \o title \o <<LoginBody>>,
         navigation |-> <<TemplateHead>> \o title \o <<NavigationBody>>,
         form       |-> <<TemplateHead>> \o title \o <<FormBody>>,
         shopping   |-> <<TemplateHead>> \o title \o <<ShoppingBody>>,
         default    |-> <<TemplateHead>> \o title \o <<DefaultBody>>
                        \o (IF Truthy(context) THEN context ELSE <<NoContext>>)
                        \o <<DefaultTail>>]

\* variant: the first branch tests 'auth' only
SelectTemplate_AuthOnly(requirements) ==
    LET reqLower == toLowerCase(requirements)
    IN  IF includes(reqLower, kwAuth) THEN "login"
        ELSE IF includes(reqLower, kwNav) \/ includes(reqLower, kwMenu) THEN "navigation"
        ELSE IF includes(reqLower, kwForm) \/ includes(reqLower, kwSubmit) THEN "form"
        ELSE IF includes(reqLower, kwShop) \/ includes(reqLower, kwCart)
                \/ includes(reqLower, kwStore) THEN "shopping"
        ELSE "default"

\* variant: the shopping branch is tested first
SelectTemplate_CartFirst(requirements) ==
    LET reqLower == toLowerCase(requirements)
    IN  IF includes(reqLower, kwShop) \/ includes(reqLower, kwCart)
           \/ includes(reqLower, kwStore) THEN "shopping"
        ELSE IF includes(reqLower, kwLogin) \/ includes(reqLower, kwAuth) THEN "login"
        ELSE IF includes(reqLower, kwNav) \/ includes(reqLower, kwMenu) THEN "navigation"
        ELSE IF includes(reqLower, kwForm) \/ includes(reqLower, kwSubmit) THEN "form"
        ELSE "default"

\* the if / else-if chain that picks the template key
SelectTemplate(requirements) ==
    LET reqLower == toLowerCase(requirements)
    IN  IF includes(reqLower, kwLogin) \/ includes(reqLower, kwAuth) THEN "login"
        ELSE IF includes(reqLower, kwNav) \/ includes(reqLower, kwMenu) THEN "navigation"
        ELSE IF includes(reqLower, kwForm) \/ includes(reqLower, kwSubmit) THEN "form"
        ELSE IF includes(reqLower, kwShop) \/ includes(reqLower, kwCart)
                \/ includes(reqLower, kwStore) THEN "shopping"
        ELSE "default"

\* variant: the requirement is kept in a field of the simulator between the
\* call and the end of its delay, where a call made meanwhile overwrites it
generatePlaywrightTest_SharedField(requirements, context) ==
    LET others == {c \in BagToSet(inflight) :
                     IF c.op = "generateTest" /\ c.pc = "mock"
                     THEN c.req.requirements # requirements ELSE FALSE}
        last == CHOOSE c \in others : TRUE
    IN  IF others = {}
        THEN testTemplates(requirements, context)[SelectTemplate(requirements)]
        ELSE testTemplates(last.req.requirements, last.req.context)
                 [SelectTemplate(last.req.requirements)]

generatePlaywrightTest(requirements, context) ==
    testTemplates(requirements, context)[SelectTemplate(requirements)]

-----------------------------------------------------------------------------
(* MockAIService: analysis heuristic *)

\* the substrings analyzeTestCode looks for, over the tokens test code is
\* written in here ("expect" is a token of its own: 'expect(' and the import
\* line both contain it)
mkImport == <<"import { test, ", "expect", " }">>
mkGoto == <<"page.goto">>
mkExpectCall == <<"expect", "(">>
\* variant: the improvement tests look for the assertion call
mkExpect_Call == <<"expect", "(">>
mkExpect == <<"expect">>
mkAwaitClick == <<"await ", "page.click">>
mkFill == <<"page.fill">>

\* variant: an improvement weighs as much as a suggestion
Score_Even(suggestions, improvements) ==
    100 - (Len(suggestions) * 10) - (Len(improvements) * 10)

\* variant: the improvement tests do not look for an assertion
analyzeTestCode_Unguarded(testCode) ==
    LET suggestions ==
            (IF ~includes(testCode, <<"import { test, ", "expect", " }">>)
             THEN <<"Add proper Playwright imports">> ELSE <<>>)
            \o (IF ~includes(testCode, <<"page.goto">>)
                THEN <<"Consider adding page navigation">> ELSE <<>>)
            \o (IF ~includes(testCode, <<"expect", "(">>)
                THEN <<"Add assertions to verify expected behavior">> ELSE <<>>)
        improvements ==
            (IF includes(testCode, <<"await ", "page.click">>)
             THEN <<"Add assertions after click actions">> ELSE <<>>)
            \o (IF includes(testCode, <<"page.fill">>)
                THEN <<"Verify form submissions with assertions">> ELSE <<>>)
        score == 100 - (Len(suggestions) * 10) - (Len(improvements) * 5)
    IN  [quality  |-> IF score >= 80 THEN "Excellent"
                      ELSE IF score >= 60 THEN "Good" ELSE "Needs Improvement",
         coverage |-> IF score >= 80 THEN "High"
                      ELSE IF score >= 60 THEN "Medium" ELSE "Low",
         suggestions |-> suggestions,
         improvements |-> improvements]

\* variant: a suggestion costs 15 points
Score_Steep(suggestions, improvements) ==
    100 - (Len(suggestions) * 15) - (Len(improvements) * 5)

Score(suggestions, improvements) ==
    100 - (Len(suggestions) * 10) - (Len(improvements) * 5)

analyzeTestCode(testCode) ==
    LET s1 == IF ~includes(testCode, mkImport)
              THEN <<"Add proper Playwright imports">> ELSE <<>>
        s2 == IF ~includes(testCode, mkGoto)
              THEN <<"Consider adding page navigation">> ELSE <<>>
        s3 == IF ~includes(testCode, mkExpectCall)
              THEN <<"Add assertions to verify expected behavior">> ELSE <<>>
        i1 == IF includes(testCode, mkAwaitClick) /\ ~includes(testCode, mkExpect)
              THEN <<"Add assertions after click actions">> ELSE <<>>
        i2 == IF includes(testCode, mkFill) /\ ~includes(testCode, mkExpect)
              THEN <<"Verify form submissions with assertions">> ELSE <<>>
        suggestions == s1 \o s2 \o s3
        improvements == i1 \o i2
        score == Score(suggestions, improvements)
    IN  [quality  |-> IF score >= 80 THEN "Excellent"
                      ELSE IF score >= 60 THEN "Good" ELSE "Needs Improvement",
         coverage |-> IF score >= 80 THEN "High"
                      ELSE IF score >= 60 THEN "Medium" ELSE "Low",
         suggestions |-> suggestions,
         improvements |-> improvements]

-----------------------------------------------------------------------------
(* MockAIService: construction, delay and error injection *)

DefaultResponseDelay == 500
DefaultErrorRate == 10

\* config.<number> || dflt : a missing field and 0 both give the default
NumberOr(config, field, dflt) ==
    IF field \in DOMAIN config /\ config[field] # 0 THEN config[field] ELSE dflt

\* config.<boolean> || false
FlagOr(config, field) ==
    field \in DOMAIN config /\ config[field]

\* new MockAIService(config): the fields it sets
MockAIService(config) ==
    [responseDelay      |-> NumberOr(config, "responseDelay", DefaultResponseDelay),
     enableRandomErrors |-> FlagOr(config, "enableRandomErrors"),
     errorRate          |-> NumberOr(config, "errorRate", DefaultErrorRate)]

\* values Math.random() takes, in hundredths
Draws == {5, 50}

\* Math.random() is called only when error injection is on
DrawsMade == IF enableRandomErrors THEN Draws ELSE {0}

\* variant: the comparison is the other way round
shouldSimulateError_Inverted(draw) ==
    IF ~enableRandomErrors THEN FALSE ELSE draw >= errorRate

shouldSimulateError(draw) ==
    IF ~enableRandomErrors THEN FALSE ELSE draw < errorRate

-----------------------------------------------------------------------------
(* MockAIService: the operations, each given what its call reads from the  *)
(* environment: the Math.random() draw, Date.now(), whether fs throws      *)

\* variant: the probe draws whether or not error injection is enabled
Mock_checkHealth_AlwaysDraws(draw) == ~(draw < errorRate)

Mock_checkHealth(draw) == ~shouldSimulateError(draw)

Mock_generateTest(request, draw) ==
    IF shouldSimulateError(draw)
    THEN [success |-> FALSE, error |-> "Mock AI service temporarily unavailable"]
    ELSE [success |-> TRUE,
          code |-> generatePlaywrightTest(request.requirements, request.context),
          validation |-> [valid |-> TRUE, issues |-> <<>>,
                          warnings |-> <<"Generated by mock AI service for development">>],
          context_used |-> <<[metadata |-> [file_path |-> "mock-context.ts"],
                              content |-> "Mock context for development"]>>]

Mock_analyzeTest(request, draw) ==
    IF shouldSimulateError(draw)
    THEN [success |-> FALSE, error |-> "Mock analysis service temporarily unavailable"]
    ELSE [success |-> TRUE, analysis |-> analyzeTestCode(request.testCode)]

Mock_modifyTest(filePath, modificationRequest, draw) ==
    IF shouldSimulateError(draw)
    THEN [success |-> FALSE, error |-> "Mock modification service temporarily unavailable"]
    ELSE [success |-> TRUE,
          code |-> <<"// Modified test based on: ">> \o modificationRequest \o <<"\n">>
                   \o generatePlaywrightTest(modificationRequest, Undefined),
          validation |-> [valid |-> TRUE, issues |-> <<>>,
                          warnings |-> <<"Modified by mock AI service">>]]

MockResultCap == 5

\* variant: the cap alone decides
Min_Cap(a, b) == b

Min(a, b) == IF a < b THEN a ELSE b

\* score is in tenths: 0.9 - (i * 0.1) is the double nearest (9 - i) / 10
Mock_searchTests(query, numResults, draw, now) ==
    IF shouldSimulateError(draw) THEN <<>>
    ELSE [k \in 1..Min(numResults, MockResultCap) |->
            [metadata |-> [file_path  |-> [stem |-> "tests/mock-result-", n |-> k,
                                           ext |-> ".spec.ts"],
                           test_name  |-> [stem |-> "Mock Test ", n |-> k],
                           created_at |-> now],
             content |-> <<"// Mock test content for: ">> \o query
                         \o <<"\n// This is a generated search result for development purposes">>,
             score |-> 9 - (k - 1)]]

Mock_saveTest(code, testName, outputDir, draw, now, fsThrows) ==
    IF shouldSimulateError(draw)
    THEN [success |-> FALSE, error |-> "Mock save service temporarily unavailable"]
    ELSE IF fsThrows
    THEN [success |-> FALSE, error |-> "Failed to save test: Error"]
    ELSE [success |-> TRUE,
          file_path |-> [dir |-> outputDir, stem |-> FileStem(testName),
                         stamp |-> now, ext |-> ".spec.ts"],
          message |-> "Test saved successfully by mock service"]

\* variant: saveTest looks at the output directory before it waits
MockTrace_FsBeforeDelay(op, env) ==
    (IF op = "saveTest" THEN <<[call |-> "fs", arg |-> 0]>> ELSE <<>>)
    \o <<[call |-> "setTimeout", arg |-> responseDelay]>>
    \o (IF enableRandomErrors THEN <<[call |-> "Math.random", arg |-> 0]>> ELSE <<>>)
    \o <<[call |-> "return", arg |-> 0]>>

\* what one simulator call does to its environment, in order: every operation
\* starts with await simulateDelay(), then evaluates shouldSimulateError()
\* once, saveTest then goes to the file system unless the failure was drawn
MockTrace(op, env) ==
    <<[call |-> "setTimeout", arg |-> responseDelay]>>
    \o (IF enableRandomErrors THEN <<[call |-> "Math.random", arg |-> 0]>> ELSE <<>>)
    \o (IF op = "saveTest"
        THEN IF shouldSimulateError(env.draw) THEN <<>>
             ELSE <<[call |-> "fs", arg |-> 0]>>
        ELSE <<>>)
    \o <<[call |-> "return", arg |-> 0]>>

-----------------------------------------------------------------------------
(* AIServiceIntegration: the real client.  A transport outcome is what the  *)
(* axios call did: it resolved with a payload (response.data) or rejected   *)
(* with an axios error (connection refused, timeout, HTTP error status).    *)

\* a JSON null payload: reading a property of it raises a TypeError
Null == [null |-> TRUE]

Reply(data) == [kind |-> "reply", data |-> data]
\* detail is error.response?.data?.detail, "" when there is none
AxiosError(detail, message) == [kind |-> "axios", detail |-> detail, message |-> message]
Refused == AxiosError("", "connect ECONNREFUSED 127.0.0.1:8000")
TimedOut == AxiosError("", "timeout of 30000ms exceeded")
NotReady == AxiosError("Service not ready", "Request failed with status code 503")

\* error.response?.data?.detail || error.message
ErrorText(t) == IF t.detail # "" THEN t.detail ELSE t.message

\* variant: any reply counts as healthy
Real_checkHealth_AnyReply(t) == t.kind = "reply"

Real_checkHealth(t) ==
    IF t.kind = "reply" /\ t.data # Null
    THEN "status" \in DOMAIN t.data /\ t.data.status = "healthy"
    ELSE FALSE

\* generateTest, analyzeTest and modifyTest: response.data as it came, or the
\* failure record built in the catch block
\* variant: the catch block reports the detail of the response only
Real_generateTest_DetailOnly(t) ==
    IF t.kind = "reply" THEN t.data
    ELSE [success |-> FALSE, error |-> t.detail]

Real_generateTest(t) ==
    IF t.kind = "reply" THEN t.data
    ELSE [success |-> FALSE, error |-> ErrorText(t)]

\* variant: the client hands the results back last first
Real_searchTests_Reversed(t) ==
    IF t.kind = "reply" /\ t.data # Null /\ "results" \in DOMAIN t.data
    THEN [i \in 1..Len(t.data.results) |->
              t.data.results[Len(t.data.results) + 1 - i]]
    ELSE <<>>

Real_searchTests(t) ==
    IF t.kind = "reply" /\ t.data # Null /\ "results" \in DOMAIN t.data
    THEN t.data.results
    ELSE <<>>

Real_saveTest(t) ==
    IF t.kind = "reply" /\ t.data = Null
    THEN [success |-> FALSE, error |-> "Unexpected error: TypeError"]
    ELSE IF t.kind = "reply"
    THEN IF t.data.success
         THEN [success |-> TRUE, filePath |-> t.data.file_path]
         ELSE [success |-> FALSE, error |-> t.data.error]
    ELSE [success |-> FALSE, error |-> ErrorText(t)]

-----------------------------------------------------------------------------
(* What the real backend may answer, and what callers may ask *)

RealCode == <<"// test written by the real backend">>
RealPath == <<"tests/generated/real.spec.ts">>
RealHit == [metadata |-> [file_path |-> [stem |-> "tests/real-", n |-> 1, ext |-> ".spec.ts"],
                          test_name |-> [stem |-> "Real Test ", n |-> 1],
                          created_at |-> 0],
            content |-> <<"// real test">>, score |-> 7]

HealthTransports ==
    {Reply([status |-> "healthy"]), Reply([status |-> "starting"]),
     Reply([uptime |-> 1]), Reply(Null), Refused, TimedOut, NotReady}

GenerateTransports ==
    {Reply([success |-> TRUE, code |-> RealCode]),
     Reply([success |-> FALSE, error |-> "LLM not available"]),
     Reply([success |-> TRUE]), Reply([success |-> FALSE]),
     Reply(Null), Refused, NotReady}

AnalyzeTransports ==
    {Reply([success |-> TRUE,
            analysis |-> [quality |-> "Good", coverage |-> "Medium",
                          suggestions |-> <<>>, improvements |-> <<>>]]),
     Reply([success |-> FALSE, error |-> "LLM not available"]),
     Reply(Null), Refused}

\* the result lists of the backend's search endpoint: by descending score,
\* entries of equal score in the order they were found
BackendResults ==
    {<<>>, <<RealHit>>,
     <<RealHit,
       [RealHit EXCEPT !.metadata.file_path.n = 2, !.metadata.test_name.n = 2],
       [RealHit EXCEPT !.metadata.file_path.n = 3, !.metadata.test_name.n = 3,
                       !.score = 3]>>}

SearchTransports ==
    {Reply([results |-> results]) : results \in BackendResults} \cup {Refused}

SaveTransports ==
    {Reply([success |-> TRUE, file_path |-> RealPath]),
     Reply([success |-> FALSE, error |-> "cannot write"]),
     Refused}

Transports(op) ==
    CASE op \in {"checkHealth", "getServiceStatus"} -> HealthTransports
      [] op \in {"generateTest", "modifyTest"} -> GenerateTransports
      [] op = "analyzeTest" -> AnalyzeTransports
      [] op = "searchTests" -> SearchTransports
      [] op = "saveTest" -> SaveTransports

ReqTestLogin ==
    <<"t","e","s","t"," ","l","o","g","i","n"," ",
      "f","u","n","c","t","i","o","n","a","l","i","t","y">>
ReqPage == <<"C","h","e","c","k"," ","p","a","g","e">>
SomeContext == <<"Page URL: https://example.com">>
GenerateRequests ==
    {[requirements |-> ReqTestLogin, context |-> Undefined],
     [requirements |-> ReqPage, context |-> SomeContext]}
AnalyzeRequests ==
    {[testCode |-> mkImport \o <<" from '@playwright/test'; ">> \o mkGoto \o <<"('/'); ">>
                   \o mkAwaitClick \o <<"('#go');">>,
      testName |-> <<"Current Test">>]}
ModifyRequests ==
    {[filePath |-> <<"tests/a.spec.ts">>, modificationRequest |-> kwMenu]}
SearchRequests == {[query |-> kwLogin, numResults |-> 3]}
SaveRequests ==
    {[code |-> RealCode, testName |-> <<"a"," ","B">>, outputDir |-> <<"tests">>]}

Operations ==
    {"generateTest", "analyzeTest", "modifyTest", "searchTests", "saveTest"}

-----------------------------------------------------------------------------
(* EnhancedAIService: the gateway.  A call is a record in the bag inflight  *)
(* from the moment it reads the mode until it hands its answer back; pc     *)
(* names the backend promise it is suspended on.  ret is what the last step *)
(* made visible: the answer a caller's continuation receives, or the line   *)
(* the gateway logged; the continuation runs before any other callback.     *)

NoArgs == [noargs |-> TRUE]
NoRet == [kind |-> "none"]
NoCall == [op |-> "none"]
NoHistory == [op |-> "off"]
NoEnv == [draw |-> 0, now |-> 0, fsThrows |-> FALSE]

\* what one simulator call reads from its environment
MockEnvs(op) ==
    [draw : DrawsMade,
     now : IF op \in {"searchTests", "saveTest"} THEN 0..MaxClock ELSE {0},
     fsThrows : IF op = "saveTest" THEN BOOLEAN ELSE {FALSE}]

\* the simulator operation of the same name, on the request as given
Mock_call(op, req, env) ==
    CASE op \in {"checkHealth", "getServiceStatus"} -> Mock_checkHealth(env.draw)
      [] op = "generateTest" -> Mock_generateTest(req, env.draw)
      [] op = "analyzeTest" -> Mock_analyzeTest(req, env.draw)
      [] op = "modifyTest" ->
            Mock_modifyTest(req.filePath, req.modificationRequest, env.draw)
      [] op = "searchTests" ->
            Mock_searchTests(req.query, req.numResults, env.draw, env.now)
      [] op = "saveTest" ->
            Mock_saveTest(req.code, req.testName, req.outputDir,
                          env.draw, env.now, env.fsThrows)

\* the real client's operation of the same name
Real_call(op, t) ==
    CASE op \in {"checkHealth", "getServiceStatus"} -> Real_checkHealth(t)
      [] op \in {"generateTest", "analyzeTest", "modifyTest"} -> Real_generateTest(t)
      [] op = "searchTests" -> Real_searchTests(t)
      [] op = "saveTest" -> Real_saveTest(t)

\* the arguments the gateway hands to the simulator: the caller's, except that
\* analyzeTest passes { testCode, ...(testName && { testName }) }
MockRequest(op, req) ==
    IF op = "analyzeTest"
    THEN IF Truthy(req.testName)
         THEN [testCode |-> req.testCode, testName |-> req.testName]
         ELSE [testCode |-> req.testCode]
    ELSE req

\* reading result.success of a null payload raises inside the try block
Throws(op, result) ==
    IF op \in {"generateTest", "analyzeTest", "modifyTest"} THEN result = Null ELSE FALSE

\* variant: an unhealthy probe is not taken as a failure
Failed_HealthIgnored(op, result) ==
    CASE op = "checkHealth" -> FALSE
      [] op = "searchTests" -> Len(result) = 0
      [] OTHER -> IF Throws(op, result) THEN TRUE ELSE ~result.success

\* variant: result.success is tested without the negation
Failed_SuccessTaken(op, result) ==
    CASE op = "checkHealth" -> ~result
      [] op = "searchTests" -> Len(result) = 0
      [] OTHER -> IF Throws(op, result) THEN TRUE ELSE result.success

\* the conditions under which the code takes a fallback branch, autoFallback apart
Failed(op, result) ==
    CASE op = "checkHealth" -> ~result
      [] op = "searchTests" -> Len(result) = 0
      [] OTHER -> IF Throws(op, result) THEN TRUE ELSE ~result.success

\* variant: the flag is tested negated
FallsBack_Negated(op, result) == IF Failed(op, result) THEN ~autoFallback ELSE FALSE

\* variant: the flag is not tested
FallsBack_Always(op, result) == Failed(op, result)

\* variant: checkHealth has no fallback branch
FallsBack_NotForHealth(op, result) ==
    IF op = "checkHealth" THEN FALSE
    ELSE IF Failed(op, result) THEN autoFallback ELSE FALSE

\* `... && this.autoFallback` / `if (this.autoFallback)` in the catch block
FallsBack(op, result) == IF Failed(op, result) THEN autoFallback ELSE FALSE

\* variant: a real answer that is no failure switches the mode back
ModeAfterReal_Recover(op, result) == FallsBack(op, result)

\* variant: the fallback branch does not assign this.useMock
ModeAfterReal_NoFlip(op, result) == useMock

\* variant: with auto-fallback enabled any real answer sets the mode
ModeAfterReal_AnyAnswer(op, result) == IF autoFallback THEN TRUE ELSE useMock

\* variant: the fallback branch toggles this.useMock
ModeAfterReal_Toggle(op, result) ==
    IF FallsBack(op, result) THEN ~useMock ELSE useMock

\* this.useMock after the real backend answered a call
ModeAfterReal(op, result) == IF FallsBack(op, result) THEN TRUE ELSE useMock

\* variant: a simulator failure switches the mode back to the real backend
ModeAfterMock_Escalate(op, value) == IF Failed(op, value) THEN FALSE ELSE useMock

\* this.useMock after the simulator answered a call
ModeAfterMock(op, value) == useMock

\* variant: getServiceStatus applies the fallback policy of checkHealth
ModeAfterStatus_Fallback(realServiceHealthy) ==
    IF ~realServiceHealthy /\ autoFallback THEN TRUE ELSE useMock

\* this.useMock after getServiceStatus returned
ModeAfterStatus(realServiceHealthy) == useMock

\* variant: auto-fallback is switched off once the mode is Simulated
AutoFallbackAfter_OffInMock == IF useMock THEN FALSE ELSE autoFallback

\* this.autoFallback after any step of the gateway
AutoFallbackAfter == autoFallback

Calls == BagToSet(inflight)
Add(c) == inflight (+) SetToBag({c})
Remove(c) == inflight (-) SetToBag({c})

\* what a suspended call keeps of the transport outcome: its kind
Kind(t) == [kind |-> t.kind]

\* realCalls and mockCalls count the backend calls the operation has issued;
\* older and abandoned are history, kept where the races are studied: the
\* operation was in flight when enableReal() was called, its caller has
\* stopped waiting for it
NewCall(op, req, pc) ==
    [op |-> op, req |-> req, sawMock |-> useMock, pc |-> pc,
     t |-> [kind |-> "none"], real |-> FALSE,
     realCalls |-> IF pc = "real" THEN 1 ELSE 0,
     mockCalls |-> IF pc = "mock" THEN 1 ELSE 0,
     older |-> FALSE, abandoned |-> FALSE]

\* variant: after a failure the real call is issued once more
Hop_RealAgain(c, t) ==
    [c EXCEPT !.t = Kind(t),
              !.realCalls = IF c.realCalls < 2 THEN c.realCalls + 1 ELSE c.realCalls]

\* the operation of c issues its simulator call, the real call having
\* settled with transport outcome t (the history of the pending real call
\* ends here)
Hop(c, t) ==
    [c EXCEPT !.pc = "mock", !.t = Kind(t), !.mockCalls = c.mockCalls + 1,
              !.older = FALSE, !.abandoned = FALSE]

Event(kind, c, t, by, env, value) ==
    [kind |-> kind, op |-> c.op, req |-> c.req, sawMock |-> c.sawMock,
     t |-> t, by |-> by, env |-> env, value |-> value,
     realCalls |-> c.realCalls, mockCalls |-> c.mockCalls,
     older |-> c.older, abandoned |-> c.abandoned]

Command(name) == [kind |-> "command", op |-> name]

\* history: one successful simulator generateTest answer, given to a call
\* that had read mode Simulated, is kept for comparison with later answers
Remember(c, value) ==
    IF c.op = "generateTest" /\ c.sawMock /\ prevGen = NoCall
    THEN IF value.success
         THEN {prevGen, [op |-> "generateTest", req |-> c.req, code |-> value.code]}
         ELSE {prevGen}
    ELSE {prevGen}

\* constructor(config): config.useMock ?? false, config.autoFallback ?? true
EnhancedAIService(config) ==
    [useMock |-> IF "useMock" \in DOMAIN config THEN config.useMock ELSE FALSE,
     autoFallback |-> IF "autoFallback" \in DOMAIN config
                      THEN config.autoFallback ELSE TRUE,
     mockService |-> MockAIService(IF "mockConfig" \in DOMAIN config
                                   THEN config.mockConfig ELSE <<>>)]

\* the exported default instance, USE_MOCK_AI unset or 'true'
DefaultInstanceConfigs ==
    {[useMock |-> u, autoFallback |-> TRUE,
      mockConfig |-> [responseDelay |-> 300, enableRandomErrors |-> FALSE]]
        : u \in BOOLEAN}

GatewayConfigs ==
    DefaultInstanceConfigs
    \cup {[autoFallback |-> FALSE],
          [useMock |-> TRUE, autoFallback |-> FALSE],
          [mockConfig |-> [enableRandomErrors |-> TRUE]]}

Construct(firstGen, firstFlip) ==
    /\ \E config \in GatewayConfigs :
         LET g == EnhancedAIService(config)
         IN  /\ useMock = g.useMock
             /\ autoFallback = g.autoFallback
             /\ responseDelay = g.mockService.responseDelay
             /\ enableRandomErrors = g.mockService.enableRandomErrors
             /\ errorRate = g.mockService.errorRate
             /\ mockConfig = IF "mockConfig" \in DOMAIN config
                              THEN config.mockConfig ELSE <<>>
    /\ inflight = EmptyBag
    /\ ret = NoRet
    /\ simCall = NoCall
    /\ simRet = NoRet
    /\ prevGen = firstGen
    /\ healthFlip = firstFlip
    /\ cli = [pc |-> "none"]
    /\ script = [pc |-> "none"]

\* the gateway after construction; InitHealth and InitGen also keep the
\* history of the health flips and of the generated answers
Init == Construct(NoHistory, "off")
InitHealth == Construct(NoHistory, "never")
InitGen == Construct(NoCall, "off")

\* the caller's continuation has taken the answer (or the log line is written)
Deliver ==
    /\ ret # NoRet
    /\ ret' = NoRet
    /\ UNCHANGED <<useMock, autoFallback, inflight, histVars, mockVars, cliVars, simVars>>

\* variant: the command toggles the mode
enableMock_Toggle ==
    /\ ret = NoRet
    /\ useMock' = ~useMock
    /\ autoFallback' = AutoFallbackAfter
    /\ ret' = [kind |-> "command", op |-> "enableMock"]
    /\ UNCHANGED <<inflight, histVars, mockVars, cliVars, simVars>>

enableMock ==
    /\ ret = NoRet
    /\ useMock' = TRUE
    /\ autoFallback' = AutoFallbackAfter
    /\ ret' = Command("enableMock")
    /\ UNCHANGED <<inflight, histVars, mockVars, cliVars, simVars>>

enableReal ==
    /\ ret = NoRet
    /\ useMock' = FALSE
    /\ autoFallback' = AutoFallbackAfter
    /\ ret' = Command("enableReal")
    /\ healthFlip' = IF healthFlip = "flipped" THEN "reverted" ELSE healthFlip
    /\ UNCHANGED <<inflight, prevGen, mockVars, cliVars, simVars>>

getCurrentService ==
    /\ ret = NoRet
    /\ ret' = [kind |-> "return", op |-> "getCurrentService",
               value |-> IF useMock THEN "mock" ELSE "real"]
    /\ UNCHANGED <<useMock, autoFallback, inflight, histVars, mockVars, cliVars, simVars>>

\* `if (this.useMock) return this.mockService.op(...)`, else the real call:
\* the call is suspended on the promise of the backend it chose
Dispatch(op, req) ==
    /\ ret = NoRet
    /\ BagCardinality(inflight) < MaxInFlight
    /\ inflight' = Add(NewCall(op, req, IF useMock THEN "mock" ELSE "real"))
    /\ UNCHANGED <<useMock, autoFallback, ret, histVars, mockVars, cliVars, simVars>>

checkHealth == Dispatch("checkHealth", NoArgs)
generateTest == \E req \in GenerateRequests : Dispatch("generateTest", req)
analyzeTest == \E req \in AnalyzeRequests : Dispatch("analyzeTest", req)
modifyTest == \E req \in ModifyRequests : Dispatch("modifyTest", req)
searchTests == \E req \in SearchRequests : Dispatch("searchTests", req)
saveTest == \E req \in SaveRequests : Dispatch("saveTest", req)

\* getServiceStatus awaits the real probe first, whatever the mode
getServiceStatus ==
    /\ ret = NoRet
    /\ BagCardinality(inflight) < MaxInFlight
    /\ inflight' = Add([NewCall("getServiceStatus", NoArgs, "real")
                            EXCEPT !.sawMock = FALSE])
    /\ UNCHANGED <<useMock, autoFallback, ret, histVars, mockVars, cliVars, simVars>>

\* the real call of c settles with transport outcome t: the gateway falls
\* back (and logs it), returns the real client's result, or rethrows
RealSettles(c, t) ==
    LET result == Real_call(c.op, t)
    IN  /\ ret = NoRet
        /\ c.pc = "real"
        /\ c.op # "getServiceStatus"
        /\ useMock' = ModeAfterReal(c.op, result)
        /\ autoFallback' = AutoFallbackAfter
        /\ IF FallsBack(c.op, result)
           THEN /\ inflight' = Add(Hop(c, t)) (-) SetToBag({c})
                /\ ret' = [Event("log", Hop(c, t), t, "real", NoEnv,
                                 IF c.op = "checkHealth" THEN [isHealthy |-> result]
                                 ELSE IF c.op = "searchTests" THEN [results |-> result]
                                 ELSE result)
                              EXCEPT !.older = c.older, !.abandoned = c.abandoned]
           ELSE /\ inflight' = Remove(c)
                /\ ret' = IF Throws(c.op, result)
                          THEN Event("throw", c, t, "real", NoEnv, "TypeError")
                          ELSE Event("return", c, t, "real", NoEnv, result)
        /\ healthFlip' = IF c.op = "checkHealth" /\ FallsBack(c.op, result)
                            /\ healthFlip # "off"
                         THEN "flipped" ELSE healthFlip
        /\ UNCHANGED <<prevGen, mockVars, cliVars, simVars>>

\* variant: a failed simulator call is issued once more
MockSettles_Retry(c, env) ==
    LET value == Mock_call(c.op, MockRequest(c.op, c.req), env)
    IN  /\ ret = NoRet
        /\ c.pc = "mock"
        /\ c.op # "getServiceStatus"
        /\ useMock' = ModeAfterMock(c.op, value)
        /\ autoFallback' = AutoFallbackAfter
        /\ IF Failed(c.op, value) /\ c.mockCalls < 2
           THEN /\ inflight' = Add([c EXCEPT !.mockCalls = c.mockCalls + 1])
                                (-) SetToBag({c})
                /\ ret' = Event("log", c, c.t, "mock", env, value)
           ELSE /\ inflight' = Remove(c)
                /\ ret' = Event("return", c, c.t, "mock", env, value)
        /\ prevGen' \in Remember(c, value)
        /\ UNCHANGED <<healthFlip, mockVars, cliVars, simVars>>

\* the simulator call of c settles: `return this.mockService.op(...)`
MockSettles(c, env) ==
    LET value == Mock_call(c.op, MockRequest(c.op, c.req), env)
    IN  /\ ret = NoRet
        /\ c.pc = "mock"
        /\ c.op # "getServiceStatus"
        /\ useMock' = ModeAfterMock(c.op, value)
        /\ autoFallback' = AutoFallbackAfter
        /\ inflight' = Remove(c)
        /\ ret' = Event("return", c, c.t, "mock", env, value)
        /\ prevGen' \in Remember(c, value)
        /\ UNCHANGED <<healthFlip, mockVars, cliVars, simVars>>

\* getServiceStatus: realServiceHealthy is known, the simulator probe is awaited
StatusRealSettles(c, t) ==
    /\ ret = NoRet
    /\ c.pc = "real"
    /\ c.op = "getServiceStatus"
    /\ inflight' = Add([Hop(c, t) EXCEPT !.real = Real_checkHealth(t)])
                   (-) SetToBag({c})
    /\ UNCHANGED <<useMock, autoFallback, ret, histVars, mockVars, cliVars, simVars>>

StatusMockSettles(c, env) ==
    /\ ret = NoRet
    /\ c.pc = "mock"
    /\ c.op = "getServiceStatus"
    /\ useMock' = ModeAfterStatus(c.real)
    /\ autoFallback' = AutoFallbackAfter
    /\ inflight' = Remove(c)
    /\ ret' = Event("return", c, c.t, "both", env,
                    [currentService |-> IF useMock' THEN "mock" ELSE "real",
                     realServiceHealthy |-> c.real,
                     mockServiceHealthy |-> Mock_checkHealth(env.draw),
                     autoFallback |-> autoFallback])
    /\ UNCHANGED <<histVars, mockVars, cliVars, simVars>>

Next ==
    \/ Deliver
    \/ enableMock
    \/ enableReal
    \/ getCurrentService
    \/ checkHealth
    \/ generateTest
    \/ analyzeTest
    \/ modifyTest
    \/ searchTests
    \/ saveTest
    \/ getServiceStatus
    \/ \E c \in Calls : \E t \in Transports(c.op) : RealSettles(c, t)
    \/ \E c \in Calls : \E env \in MockEnvs(c.op) : MockSettles(c, env)
    \/ \E c \in Calls : \E t \in Transports(c.op) : StatusRealSettles(c, t)
    \/ \E c \in Calls : \E env \in MockEnvs(c.op) : StatusMockSettles(c, env)

\* enableReal(), the operations that are waiting for the real backend being
\* marked as older than it
enableRealMarking ==
    /\ ret = NoRet
    /\ useMock' = FALSE
    /\ autoFallback' = AutoFallbackAfter
    /\ ret' = Command("enableReal")
    /\ inflight' = BagOfAll(LAMBDA c : IF c.pc = "real" /\ c.op # "getServiceStatus"
                                        THEN [c EXCEPT !.older = TRUE] ELSE c,
                             inflight)
    /\ UNCHANGED <<histVars, mockVars, cliVars, simVars>>

\* the caller of the operation c, which is waiting for the real backend,
\* stops waiting for its promise; the operation itself goes on
Abandon(c) ==
    /\ ret = NoRet
    /\ c.pc = "real"
    /\ c.op # "getServiceStatus"
    /\ ~c.abandoned
    /\ inflight' = Add([c EXCEPT !.abandoned = TRUE]) (-) SetToBag({c})
    /\ UNCHANGED <<useMock, autoFallback, ret, histVars, mockVars, cliVars, simVars>>

\* the gateway with callers that abandon operations
NextAbandon ==
    \/ Deliver
    \/ enableMock
    \/ enableReal
    \/ getCurrentService
    \/ checkHealth
    \/ generateTest
    \/ analyzeTest
    \/ modifyTest
    \/ searchTests
    \/ saveTest
    \/ getServiceStatus
    \/ \E c \in Calls : Abandon(c)
    \/ \E c \in Calls : \E t \in Transports(c.op) : RealSettles(c, t)
    \/ \E c \in Calls : \E env \in MockEnvs(c.op) : MockSettles(c, env)
    \/ \E c \in Calls : \E t \in Transports(c.op) : StatusRealSettles(c, t)
    \/ \E c \in Calls : \E env \in MockEnvs(c.op) : StatusMockSettles(c, env)

\* the gateway with the operations older than the last enableReal() marked
NextRace ==
    \/ Deliver
    \/ enableMock
    \/ enableRealMarking
    \/ getCurrentService
    \/ checkHealth
    \/ generateTest
    \/ analyzeTest
    \/ modifyTest
    \/ searchTests
    \/ saveTest
    \/ getServiceStatus
    \/ \E c \in Calls : \E t \in Transports(c.op) : RealSettles(c, t)
    \/ \E c \in Calls : \E env \in MockEnvs(c.op) : MockSettles(c, env)
    \/ \E c \in Calls : \E t \in Transports(c.op) : StatusRealSettles(c, t)
    \/ \E c \in Calls : \E env \in MockEnvs(c.op) : StatusMockSettles(c, env)

Spec == Init /\ [][Next]_vars
SpecRace == Init /\ [][NextRace]_vars
SpecAbandon == Init /\ [][NextAbandon]_vars
SpecHealth == InitHealth /\ [][Next]_vars
SpecGen == InitGen /\ [][Next]_vars

-----------------------------------------------------------------------------
(* The simulator called directly (createMockAIService(config)), one call at *)
(* a time, on requirement texts put together from words                     *)

Words ==
    {kwLogin, kwAuth, kwNav, kwMenu, kwForm, kwSubmit, kwShop, kwCart, kwStore,
     <<"L","O","G","I","N">>, <<"C","a","r","t">>, <<"l","o","g">>, <<"i","n">>,
     <<" ">>, <<"x","-","1">>}

RECURSIVE Texts(_)
Texts(n) ==
    IF n = 0 THEN {<<>>}
    ELSE LET shorter == Texts(n - 1)
         IN  shorter \cup {w \o s : w \in Words, s \in shorter}

Contexts == {Undefined, <<>>, SomeContext}

\* test codes: each of an import line, a navigation, a click (awaited or
\* returned), a fill and an assertion call is there or not, in this order
CodePieces ==
    <<{<<>>, mkImport \o <<" from '@playwright/test'; ">>},
      {<<>>, <<"await ">> \o mkGoto \o <<"('/'); ">>},
      {<<>>, mkAwaitClick \o <<"('#go'); ">>, <<"return ", "page.click", "('#go'); ">>},
      {<<>>, <<"await ">> \o mkFill \o <<"('#q', 'x'); ">>},
      {<<>>, <<"await ">> \o mkExpectCall \o <<"page).toHaveURL('/'); ">>}>>

TestCodes ==
    {a \o b \o c \o d \o e :
        a \in CodePieces[1], b \in CodePieces[2], c \in CodePieces[3],
        d \in CodePieces[4], e \in CodePieces[5]} \ {<<>>}

SimRequests(op) ==
    CASE op = "checkHealth" -> {NoArgs}
      [] op = "generateTest" -> \* requirement texts are non-empty
            [requirements : Texts(MaxWords) \ {<<>>}, context : Contexts]
      [] op = "analyzeTest" -> [testCode : TestCodes, testName : {Undefined}]
      [] op = "modifyTest" -> ModifyRequests
      [] op = "searchTests" ->
            [query : {kwLogin}, numResults : (-1)..(MockResultCap + 1)]
      [] op = "saveTest" -> SaveRequests

InitSim ==
    /\ \E config \in {<<>>,
                       [responseDelay |-> 300, enableRandomErrors |-> FALSE],
                       [enableRandomErrors |-> TRUE],
                       [enableRandomErrors |-> TRUE, errorRate |-> 0],
                       [responseDelay |-> 0, enableRandomErrors |-> TRUE,
                        errorRate |-> 100]} :
         LET m == MockAIService(config)
         IN  /\ responseDelay = m.responseDelay
             /\ enableRandomErrors = m.enableRandomErrors
             /\ errorRate = m.errorRate
             /\ mockConfig = config
    /\ useMock = TRUE
    /\ autoFallback = FALSE
    /\ inflight = EmptyBag
    /\ ret = NoRet
    /\ simCall = NoCall
    /\ simRet = NoRet
    /\ prevGen = NoHistory
    /\ healthFlip = "off"
    /\ cli = [pc |-> "none"]
    /\ script = [pc |-> "none"]

\* a caller invokes the operation and awaits its promise
SimInvoke(op) ==
    /\ simCall = NoCall
    /\ simRet = NoRet
    /\ \E req \in SimRequests(op) : simCall' = [op |-> op, req |-> req]
    /\ UNCHANGED <<simRet, gatewayVars, mockVars, cliVars, histVars>>

\* the caller's continuation has taken the answer
SimDeliver ==
    /\ simRet # NoRet
    /\ simRet' = NoRet
    /\ UNCHANGED <<simCall, gatewayVars, mockVars, cliVars, histVars>>

\* the delay has elapsed and the operation answers
SimSettles(env) ==
    /\ simCall # NoCall
    /\ simCall' = NoCall
    /\ simRet' = [kind |-> "return", op |-> simCall.op, req |-> simCall.req,
                  env |-> env, trace |-> MockTrace(simCall.op, env),
                  value |-> Mock_call(simCall.op, simCall.req, env)]
    /\ UNCHANGED <<gatewayVars, mockVars, cliVars, histVars>>

NextSim ==
    \/ SimDeliver
    \/ SimInvoke("checkHealth")
    \/ SimInvoke("generateTest")
    \/ SimInvoke("analyzeTest")
    \/ SimInvoke("modifyTest")
    \/ SimInvoke("searchTests")
    \/ SimInvoke("saveTest")
    \/ \E env \in MockEnvs(simCall.op) : SimSettles(env)

SpecSim == InitSim /\ [][NextSim]_vars

-----------------------------------------------------------------------------
(* The command-line tool: generate (generateCommand) and search             *)
(* (searchCommand).  One process runs one command.  cli.sent lists the      *)
(* requests it has posted, cli.out the lines it has printed, cli.typed what *)
(* the user has typed at the terminal (each request in cli.sent keeps what  *)
(* had been typed when it was posted), cli.exit the exit status once the    *)
(* process has ended.                                                       *)

\* an axios error as the catch blocks look at it: error.code,
\* error.response?.status (0 without a response), error.response?.data?.detail
CliError(code, status, detail, message) ==
    [kind |-> "axios", code |-> code, status |-> status,
     detail |-> detail, message |-> message]

CliNotReady ==
    CliError("ERR_BAD_RESPONSE", 503, "Service not ready",
             "Request failed with status code 503")

\* a refused connection, a connection reset, and answers 503, 500 and 404
CliErrors ==
    {CliError("ECONNREFUSED", 0, "", "connect ECONNREFUSED 127.0.0.1:8000"),
     CliError("ECONNRESET", 0, "", "socket hang up"),
     CliNotReady,
     CliError("ERR_BAD_RESPONSE", 500, "Generation failed",
              "Request failed with status code 500"),
     CliError("ERR_BAD_REQUEST", 404, "", "Request failed with status code 404")}

\* the error raised by reading a property of null or undefined in the try block
CliTypeError == [kind |-> "error", message |-> "TypeError"]

\* variant: the catch block has no branch for status 503
CatchBlock_No503(cmd, error) ==
    IF error.kind = "axios"
    THEN IF error.code = "ECONNREFUSED"
         THEN <<"Cannot connect to AI service.",
                "Make sure the AI service is running:">>
         ELSE <<"API Error: ", ErrorText(error)>>
    ELSE <<"Unexpected error: ", error.message>>

\* the lines the catch block of a command prints for the error it caught
CatchBlock(cmd, error) ==
    IF error.kind = "axios"
    THEN IF error.code = "ECONNREFUSED"
         THEN <<"Cannot connect to AI service.",
                "Make sure the AI service is running:">>
         ELSE IF error.status = 503
         THEN <<"AI Service not available.",
                IF cmd = "generate" THEN "Run setup first: ai-test setup"
                ELSE "Run setup first: ./dist/index.js setup">>
         ELSE <<"API Error: ", ErrorText(error)>>
    ELSE <<"Unexpected error: ", error.message>>

\* spinner.fail(...), the catch block's lines, process.exit(1)
CliFails(error) ==
    [cli EXCEPT !.pc = "exited",
                !.caught = {error},
                !.out = cli.out
                        \o <<IF cli.cmd = "generate" THEN "Test generation failed"
                             ELSE "Search failed">>
                        \o CatchBlock(cli.cmd, error),
                !.exit = {1}]

\* the user types an answer at the terminal; no statement of the tool reads it
CliTypes(answer) ==
    /\ cli.pc \in {"generating", "saving"}
    /\ cli.typed = ""
    /\ cli' = [cli EXCEPT !.typed = answer]
    /\ UNCHANGED <<gatewayVars, mockVars, simVars, histVars, script>>

\* the process from the start of the command to its first await
CliStart(cmd, options, endpoint, body) ==
    [pc |-> IF cmd = "generate" THEN "generating" ELSE "searching",
     cmd |-> cmd, options |-> options,
     sent |-> <<[endpoint |-> endpoint, body |-> body, typed |-> ""]>>,
     typed |-> "", out |-> <<>>, got |-> <<>>, shown |-> <<>>, caught |-> {},
     exit |-> {}]

\* options.<text> || dflt
TextOr(options, field, dflt) ==
    IF field \in DOMAIN options
    THEN IF Truthy(options[field]) THEN options[field] ELSE dflt
    ELSE dflt

\* what the post of /generate-test may do: a result with a complete
\* validation, valid or not, with a validation that lacks its lists, without
\* validation, a failure result, an empty body, an error
CliGenerateTransports ==
    {Reply([success |-> TRUE, content |-> RealCode, validation |-> v]) :
        v \in {[valid |-> TRUE, issues |-> <<>>, warnings |-> <<>>],
               [valid |-> FALSE, issues |-> <<"Missing import">>,
                warnings |-> <<"Long test">>],
               [valid |-> TRUE]}}
    \cup {Reply([success |-> TRUE, content |-> RealCode]),
          Reply([success |-> FALSE, error |-> "LLM not available"]),
          Reply(Null)}
    \cup CliErrors

\* what the post of /save-test may do
CliSaveTransports ==
    {Reply([success |-> TRUE, file_path |-> RealPath]),
     Reply([success |-> FALSE, error |-> "cannot write"]),
     Reply(Null)}
    \cup CliErrors

\* generateCommand(requirements, options) up to its first await
generateCommand ==
    /\ cli.pc = "none"
    /\ \E requirements \in {ReqTestLogin, ReqPage} :
       \E options \in {<<>>, [output |-> <<"tests">>, approval |-> TRUE],
                       [output |-> <<"out">>, approval |-> FALSE,
                        context |-> SomeContext]} :
          cli' = CliStart("generate", options, "generate-test",
                          [requirements |-> requirements,
                           context_query |-> TextOr(options, "context", Undefined)])
    /\ UNCHANGED <<gatewayVars, mockVars, simVars, histVars, script>>

\* displaying a generation result raises a TypeError
DisplayThrows(result) ==
    IF result = Null THEN TRUE
    ELSE IF ~result.success THEN FALSE
    ELSE IF "validation" \notin DOMAIN result THEN FALSE
    ELSE IF "issues" \notin DOMAIN result.validation
    THEN IF result.validation.valid
         THEN "warnings" \notin DOMAIN result.validation ELSE TRUE
    ELSE "warnings" \notin DOMAIN result.validation

\* options.approval !== false
ApprovalWorkflow(options) ==
    IF "approval" \in DOMAIN options THEN options.approval ELSE TRUE

\* the post of /generate-test settles: the result is displayed and, in both
\* branches of the approval step, /save-test is posted
GenerateSettles(t, now) ==
    /\ cli.pc = "generating"
    /\ cli' =
         IF t.kind = "axios" THEN CliFails(t)
         ELSE IF DisplayThrows(t.data) THEN CliFails(CliTypeError)
         ELSE IF ~t.data.success
         THEN [cli EXCEPT !.pc = "exited",
                          !.out = cli.out \o <<"Test generation failed", t.data.error>>,
                          !.exit = {1}]
         ELSE [cli EXCEPT !.pc = "saving",
                          !.out = cli.out
                                  \o <<"Test generated successfully!", "Generated Test:">>
                                  \o (IF ApprovalWorkflow(cli.options)
                                      THEN <<"Do you want to save this test? (y/n)">>
                                      ELSE <<>>),
                          !.sent = Append(cli.sent,
                                          [endpoint |-> "save-test",
                                           body |-> [code |-> t.data.content,
                                                     test_name |-> [stem |-> "generated-test-",
                                                                    stamp |-> now],
                                                     output_dir |-> TextOr(cli.options, "output",
                                                                           <<"tests">>)],
                                           typed |-> cli.typed])]
    /\ UNCHANGED <<gatewayVars, mockVars, simVars, histVars, script>>

\* the post of /save-test settles; the command returns
SaveSettles(t) ==
    /\ cli.pc = "saving"
    /\ cli' =
         IF t.kind = "axios" THEN CliFails(t)
         ELSE IF t.data = Null THEN CliFails(CliTypeError)
         ELSE [cli EXCEPT !.pc = "exited",
                          !.out = cli.out
                                  \o <<IF t.data.success
                                       THEN IF ApprovalWorkflow(cli.options)
                                            THEN "Test saved to: "
                                            ELSE "Test auto-saved to: "
                                       ELSE "Failed to save test: ">>,
                          !.exit = {0}]
    /\ UNCHANGED <<gatewayVars, mockVars, simVars, histVars, script>>

\* parseInt of a text that starts with a digit: its leading digits, base 10
RECURSIVE parseInt(_)
parseInt(s) ==
    IF s = <<>> THEN 0
    ELSE IF \E i \in DOMAIN s : s[i] \notin Digits
    THEN parseInt(SubSeq(s, 1, (CHOOSE i \in DOMAIN s :
                                   /\ s[i] \notin Digits
                                   /\ \A j \in 1..(i - 1) : s[j] \in Digits) - 1))
    ELSE parseInt(SubSeq(s, 1, Len(s) - 1)) * 10
         + (CHOOSE d \in 0..9 :
               <<"0","1","2","3","4","5","6","7","8","9">>[d + 1] = s[Len(s)])

endsWith(s, suffix) ==
    IF Len(suffix) > Len(s) THEN FALSE
    ELSE SubSeq(s, Len(s) - Len(suffix) + 1, Len(s)) = suffix

\* isTestFile(filePath, nodeType): the exclude patterns, all case-insensitive
\* (anchored at the end, or found anywhere), then the test patterns over the
\* extensions (ts|js|tsx|jsx), then the keywords of a text chunk
isTestFile(filePath, nodeType) ==
    LET low == toLowerCase(filePath)
        kwTest == <<"t","e","s","t">>
        kwSpec == <<"s","p","e","c">>
        ExcludedEndings ==
            {<<".","p","y">>, <<".","j","s","o","n">>, <<".","m","d">>,
             <<"p","a","c","k","a","g","e","-","l","o","c","k",".","j","s","o","n">>}
        ExcludedParts ==
            {<<".","c","o","n","f","i","g",".">>,
             <<"n","o","d","e","_","m","o","d","u","l","e","s">>,
             <<"_","_","p","y","c","a","c","h","e","_","_">>,
             <<".","g","i","t">>, <<"v","e","n","v">>, <<".","e","n","v">>}
        SourceExts ==
            {<<".","t","s">>, <<".","j","s">>, <<".","t","s","x">>, <<".","j","s","x">>}
        \* /test.*\.(ts|js|tsx|jsx)$/i
        TestThenExt(ext) ==
            IF endsWith(low, ext)
            THEN \E i \in 1..(Len(low) - Len(ext) - 3) : SubSeq(low, i, i + 3) = kwTest
            ELSE FALSE
    IN  IF \/ \E e \in ExcludedEndings : endsWith(low, e)
           \/ \E e \in ExcludedParts : includes(low, e)
        THEN FALSE
        ELSE IF \E ext \in SourceExts :
                   \/ endsWith(low, <<".">> \o kwSpec \o ext)
                   \/ endsWith(low, <<".">> \o kwTest \o ext)
                   \/ TestThenExt(ext)
        THEN TRUE
        ELSE IF nodeType = "text_chunk"
        THEN \/ includes(filePath, kwTest)
             \/ includes(filePath, kwSpec)
             \/ includes(filePath, kwTest \o <<"s","/">>)
        ELSE FALSE

\* metadata.file_path || 'Unknown file', with metadata = test.metadata || {}
FilePathOf(test) ==
    IF "metadata" \in DOMAIN test
    THEN IF "file_path" \in DOMAIN test.metadata
         THEN test.metadata.file_path ELSE <<"Unknown file">>
    ELSE <<"Unknown file">>

\* result.results.filter(...)
RECURSIVE FilterTests(_)
FilterTests(results) ==
    IF results = <<>> THEN <<>>
    ELSE LET test == Head(results)
             \* metadata.node_type || 'unknown'
             nodeType == IF "metadata" \in DOMAIN test
                         THEN IF "node_type" \in DOMAIN test.metadata
                              THEN test.metadata.node_type ELSE "unknown"
                         ELSE "unknown"
         IN  (IF isTestFile(FilePathOf(test), nodeType) THEN <<test>> ELSE <<>>)
             \o FilterTests(Tail(results))

\* variant: a later entry of the same file path replaces the earlier one
RECURSIVE Deduplicate_KeepLast(_, _)
Deduplicate_KeepLast(testFiles, seen) ==
    IF testFiles = <<>> THEN <<>>
    ELSE IF \E i \in 2..Len(testFiles) :
                FilePathOf(testFiles[i]) = FilePathOf(Head(testFiles))
    THEN Deduplicate_KeepLast(Tail(testFiles), seen)
    ELSE <<Head(testFiles)>> \o Deduplicate_KeepLast(Tail(testFiles), seen)

\* the values of uniqueFilesMap: the first entry of each file path, in the
\* order of insertion
RECURSIVE Deduplicate(_, _)
Deduplicate(testFiles, seen) ==
    IF testFiles = <<>> THEN <<>>
    ELSE IF FilePathOf(Head(testFiles)) \in seen
    THEN Deduplicate(Tail(testFiles), seen)
    ELSE <<Head(testFiles)>>
         \o Deduplicate(Tail(testFiles), seen \cup {FilePathOf(Head(testFiles))})

\* entries the search endpoint may return: tests/a.spec.ts twice with
\* different content, T.SPEC.TS, test.py, venv/t.test.js, docs/spec as a text
\* chunk and as a function, src/app.ts, and an entry without metadata
SearchEntries ==
    LET PathSpecTs == <<"t","e","s","t","s","/","a",".","s","p","e","c",".","t","s">>
        PathDocs == <<"d","o","c","s","/","s","p","e","c">>
    IN  {[metadata |-> [file_path |-> PathSpecTs, node_type |-> "function"],
          content |-> "first"],
         [metadata |-> [file_path |-> PathSpecTs, node_type |-> "text_chunk"],
          content |-> "second"],
         [metadata |-> [file_path |-> <<"T",".","S","P","E","C",".","T","S">>,
                        node_type |-> "function"]],
         [metadata |-> [file_path |-> <<"t","e","s","t",".","p","y">>,
                        node_type |-> "text_chunk"],
          content |-> "python"],
         [metadata |-> [file_path |-> <<"v","e","n","v","/","t",".","t","e","s","t",".","j","s">>,
                        node_type |-> "function"],
          content |-> "vendored"],
         [metadata |-> [file_path |-> PathDocs, node_type |-> "text_chunk"],
          content |-> "notes"],
         [metadata |-> [file_path |-> PathDocs, node_type |-> "function"],
          content |-> "notes"],
         [metadata |-> [file_path |-> <<"s","r","c","/","a","p","p",".","t","s">>,
                        node_type |-> "text_chunk"],
          content |-> "app"],
         [content |-> "bare"]}

RECURSIVE ResultLists(_)
ResultLists(n) ==
    IF n = 0 THEN {<<>>}
    ELSE LET shorter == ResultLists(n - 1)
         IN  shorter \cup {<<e>> \o l : e \in SearchEntries, l \in shorter}

\* what the post of /search-tests may do
CliSearchTransports ==
    {Reply([results |-> l]) : l \in ResultLists(MaxResults)}
    \cup {Reply([count |-> 0]), Reply(Null)}
    \cup CliErrors

\* searchCommand(query, options) up to its await
searchCommand ==
    /\ cli.pc = "none"
    /\ \E options \in {<<>>, [num |-> <<"5">>], [num |-> <<"1","2","x">>]} :
          cli' = CliStart("search", options, "search-tests",
                          [query |-> kwLogin,
                           n_results |-> parseInt(TextOr(options, "num", <<"1","0">>))])
    /\ UNCHANGED <<gatewayVars, mockVars, simVars, histVars, script>>

\* the post of /search-tests settles: the matching test files are listed,
\* one line each
SearchSettles(t) ==
    /\ cli.pc = "searching"
    /\ cli' =
         IF t.kind = "axios" THEN CliFails(t)
         ELSE IF t.data = Null THEN CliFails(CliTypeError)
         ELSE LET results == IF "results" \in DOMAIN t.data
                             THEN t.data.results ELSE <<>>
                  uniqueTestFiles == Deduplicate(FilterTests(results), {})
              IN  [cli EXCEPT
                      !.pc = "exited",
                      !.exit = {0},
                      !.got = results,
                      !.shown = uniqueTestFiles,
                      !.out = cli.out \o <<"Search completed!">>
                              \o (IF results = <<>>
                                  THEN <<"No tests found matching your query.">>
                                  ELSE IF uniqueTestFiles = <<>>
                                  THEN <<"No test files found matching your query.">>
                                  ELSE <<"Found unique test file(s):">>)]
    /\ UNCHANGED <<gatewayVars, mockVars, simVars, histVars, script>>

InitCli ==
    /\ LET g == EnhancedAIService(<<>>)
       IN  /\ useMock = g.useMock
           /\ autoFallback = g.autoFallback
           /\ responseDelay = g.mockService.responseDelay
           /\ enableRandomErrors = g.mockService.enableRandomErrors
           /\ errorRate = g.mockService.errorRate
    /\ mockConfig = <<>>
    /\ inflight = EmptyBag
    /\ ret = NoRet
    /\ simCall = NoCall
    /\ simRet = NoRet
    /\ prevGen = NoHistory
    /\ healthFlip = "off"
    /\ cli = [pc |-> "none"]
    /\ script = [pc |-> "none"]

NextCli ==
    \/ generateCommand
    \/ searchCommand
    \/ \E answer \in {"y", "n"} : CliTypes(answer)
    \/ \E t \in CliGenerateTransports : \E now \in 0..MaxClock : GenerateSettles(t, now)
    \/ \E t \in CliSaveTransports : SaveSettles(t)
    \/ \E t \in CliSearchTransports : SearchSettles(t)

SpecCli == InitCli /\ [][NextCli]_vars

-----------------------------------------------------------------------------
(* The generate-tests script: generateTest(options) run on the exported     *)
(* default instance of the gateway, which no one else uses.  script.did     *)
(* lists what the script has done, script.got the answers it has received,  *)
(* script.files the files it has written, script.exit its exit status.      *)

\* generateTestForPage(pageUrl, requirements, context): the request it hands
\* to enhancedAIService.generateTest
generateTestForPage(pageUrl, requirements, context) ==
    [requirements |-> requirements,
     context |-> IF Truthy(context)
                 THEN context \o <<"\nPage URL: ">> \o pageUrl
                 ELSE <<"Page URL: ">> \o pageUrl,
     pageUrl |-> pageUrl]

\* variant: the health check is called before enableMock()
Script_generateTest_HealthFirst(options) ==
    /\ script.pc = "none"
    /\ ret = NoRet
    /\ useMock' = IF options.useMock THEN TRUE ELSE useMock
    /\ inflight' = Add(NewCall("checkHealth", NoArgs, IF useMock THEN "mock" ELSE "real"))
    /\ script' = [pc |-> "health", options |-> options,
                  did |-> <<"checkHealth">>
                          \o (IF options.useMock THEN <<"enableMock">> ELSE <<>>),
                  got |-> <<>>, files |-> <<>>, exit |-> {}]
    /\ UNCHANGED <<autoFallback, ret, histVars, mockVars, cli, simVars>>

\* generateTest(options) up to its first await: enableMock() when
\* options.useMock, then the call of checkHealth
Script_generateTest(options) ==
    LET mode == IF options.useMock THEN TRUE ELSE useMock
    IN  /\ script.pc = "none"
        /\ ret = NoRet
        /\ useMock' = mode
        /\ inflight' = Add([NewCall("checkHealth", NoArgs,
                                    IF mode THEN "mock" ELSE "real")
                               EXCEPT !.sawMock = mode])
        /\ script' = [pc |-> "health", options |-> options,
                      did |-> (IF options.useMock THEN <<"enableMock">> ELSE <<>>)
                              \o <<"checkHealth">>,
                      got |-> <<>>, files |-> <<>>, exit |-> {}]
        /\ UNCHANGED <<autoFallback, ret, histVars, mockVars, cli, simVars>>

\* checkHealth has answered: the script exits, or calls generateTest through
\* generateTestForPage when a page URL was given
Script_HealthReturns ==
    /\ script.pc = "health"
    /\ IF ret.kind = "return" THEN ret.op = "checkHealth" ELSE FALSE
    /\ ret' = NoRet
    /\ IF ~ret.value
       THEN /\ script' = [script EXCEPT !.pc = "exited", !.exit = {1},
                                        !.got = Append(script.got, ret.value)]
            /\ inflight' = inflight
       ELSE /\ script' = [script EXCEPT !.pc = "generating",
                                        !.got = Append(script.got, ret.value),
                                        !.did = Append(script.did, "generateTest")]
            /\ inflight' =
                 Add(NewCall("generateTest",
                             IF Truthy(script.options.pageUrl)
                             THEN generateTestForPage(script.options.pageUrl,
                                                      script.options.requirements,
                                                      script.options.context)
                             ELSE [requirements |-> script.options.requirements,
                                   context |-> IF Truthy(script.options.context)
                                               THEN script.options.context
                                               ELSE Undefined],
                             IF useMock THEN "mock" ELSE "real"))
    /\ UNCHANGED <<useMock, autoFallback, histVars, mockVars, cli, simVars>>

\* generateTest has answered or thrown: the script exits on a failure, shows
\* the result, writes the file when asked to, and ends; an exception ends it
\* in main().catch with status 1
Script_GenerateReturns(now, fsThrows) ==
    /\ script.pc = "generating"
    /\ IF ret.kind \in {"return", "throw"} THEN ret.op = "generateTest" ELSE FALSE
    /\ ret' = NoRet
    /\ script' =
         LET result == ret.value
             failed == [script EXCEPT !.pc = "exited", !.exit = {1},
                                      !.got = Append(script.got, ret.value)]
             shown == [script EXCEPT !.pc = "exited", !.exit = {0},
                                     !.got = Append(script.got, ret.value)]
             displayThrows ==
                 IF "validation" \notin DOMAIN result THEN FALSE
                 ELSE IF "warnings" \notin DOMAIN result.validation THEN TRUE
                 ELSE IF result.validation.valid THEN FALSE
                 ELSE "issues" \notin DOMAIN result.validation
             fileName == IF Truthy(script.options.outputFile)
                         THEN script.options.outputFile
                         ELSE [stem |-> "ai-generated-test-", stamp |-> now,
                               ext |-> ".spec.ts"]
             code == IF "code" \in DOMAIN result THEN result.code ELSE <<>>
         IN  IF ret.kind = "throw" THEN failed
             ELSE IF ~result.success THEN failed
             ELSE IF displayThrows THEN failed
             ELSE IF script.options.autoSave \/ Truthy(script.options.outputFile)
             THEN IF fsThrows
                  THEN [failed EXCEPT !.did = Append(script.did, "fs")]
                  ELSE [shown EXCEPT
                           !.did = Append(script.did, "fs"),
                           !.files = Append(script.files,
                                            [dir |-> <<"tests">>, name |-> fileName,
                                             content |-> code])]
             ELSE shown
    /\ UNCHANGED <<useMock, autoFallback, inflight, histVars, mockVars, cli, simVars>>

\* the default instance, USE_MOCK_AI unset or 'true'
InitScript ==
    /\ Init
    /\ \E config \in DefaultInstanceConfigs :
          /\ useMock = config.useMock
          /\ autoFallback = config.autoFallback
          /\ mockConfig = config.mockConfig

NextScript ==
    \/ \E options \in [requirements : {ReqTestLogin},
                       useMock : BOOLEAN, autoSave : BOOLEAN,
                       outputFile : {Undefined, <<"login.spec.ts">>},
                       pageUrl : {Undefined, <<"https://example.com">>},
                       context : {Undefined, <<"logged in">>}] :
          Script_generateTest(options)
    \/ Script_HealthReturns
    \/ \E now \in 0..MaxClock : \E fsThrows \in BOOLEAN :
          Script_GenerateReturns(now, fsThrows)
    \/ ret.kind = "log" /\ Deliver
    \/ \E c \in Calls : \E t \in Transports(c.op) : RealSettles(c, t)
    \/ \E c \in Calls : \E env \in MockEnvs(c.op) : MockSettles(c, env)

SpecScript == InitScript /\ [][NextScript]_vars

-----------------------------------------------------------------------------
(* Properties *)

GatewayOps == Operations \cup {"checkHealth"}

\* ret is the completion (return or throw) of a gateway operation in ops
Completes(ops) == IF ret.kind \in {"return", "throw"} THEN ret.op \in ops ELSE FALSE
Returns(ops) == IF ret.kind = "return" THEN ret.op \in ops ELSE FALSE
Logs(ops) == IF ret.kind = "log" THEN ret.op \in ops ELSE FALSE

\* a call of the logged operation, with the same arguments, awaits the simulator
AwaitsSimulator ==
    \E c \in Calls : IF c.op = ret.op THEN c.req = ret.req /\ c.pc = "mock" ELSE FALSE

\* C1: No silent recovery: once the mode is Simulated, no step of checkHealth,
\* generateTest, analyzeTest, modifyTest, searchTests, saveTest or
\* getServiceStatus makes it Real, whatever the real backend answers; the only
\* step after which a Simulated mode is Real is enableReal().
C1_NoSilentRecovery ==
    [][(useMock /\ ~useMock') => (ret'.kind = "command" /\ ret'.op = "enableReal")]_vars

\* the mode, set to Simulated by a health check, is still Simulated when
\* getServiceStatus reports the real backend healthy
C1_Witness ==
    /\ healthFlip = "flipped"
    /\ Returns({"getServiceStatus"})
    /\ ret.value.realServiceHealthy
    /\ ret.value.currentService = "mock"

\* C2: Failover invariant: with auto-fallback enabled, an operation that made
\* no real call (mode read Simulated) or whose real call ended in a transport
\* fault never throws: it returns, and what it returns is the value of the
\* simulator's operation on its arguments (a success or a failure the
\* simulator declared).
C2_FailoverInvariant ==
    (/\ autoFallback
     /\ Completes(GatewayOps)
     /\ ret.t.kind \in {"none", "axios"})
    => /\ ret.kind = "return"
       /\ ret.by = "mock"
       /\ ret.value = Mock_call(ret.op, ret.req, ret.env)

\* saveTest, started in Real mode, met a transport fault and returned the
\* simulator's declared failure
C2_Witness ==
    /\ autoFallback
    /\ Returns({"saveTest"})
    /\ ~ret.sawMock
    /\ ret.t.kind = "axios"
    /\ ret.by = "mock"
    /\ ~ret.value.success

\* the claim's failure of a real answer: success=false, or an empty list for
\* searchTests
C3_RealFailure(op, value) ==
    IF op = "searchTests" THEN value = <<>> ELSE ~value.success

\* C3: Fallback on failure: a fallback is taken only by an operation that read
\* mode Real with auto-fallback enabled; when it is taken the mode is Simulated
\* and the simulator's same operation is awaited with the same arguments; with
\* auto-fallback enabled no real failure (throw, success=false, empty list) is
\* handed to the caller; and what the caller gets after a fallback is exactly
\* the simulator's result for its arguments.
C3_FallbackOnFailure ==
    /\ Logs(Operations) => /\ ~ret.sawMock
                           /\ autoFallback
                           /\ useMock
                           /\ AwaitsSimulator
    /\ (Completes(Operations) /\ autoFallback) =>
          IF ret.by = "real"
          THEN ret.kind = "return" /\ ~C3_RealFailure(ret.op, ret.value)
          ELSE TRUE
    /\ Returns(Operations) =>
          IF ret.by = "mock" /\ ~ret.sawMock
          THEN ret.value = Mock_call(ret.op, ret.req, ret.env)
          ELSE TRUE

\* searchTests read mode Real, the real backend answered an empty list, and
\* the caller got the simulator's three entries with the mode Simulated
C3_Witness ==
    /\ Returns({"searchTests"})
    /\ ~ret.sawMock
    /\ ret.t.kind = "reply"
    /\ ret.by = "mock"
    /\ Len(ret.value) = 3
    /\ useMock

C4_State ==
    ~autoFallback =>
        /\ ret.kind # "log"
        /\ Completes(GatewayOps) =>
              /\ ret.by = "mock" => ret.sawMock
              /\ ret.by = "real" =>
                    IF Throws(ret.op, Real_call(ret.op, ret.t))
                    THEN ret.kind = "throw"
                    ELSE ret.kind = "return" /\ ret.value = Real_call(ret.op, ret.t)

\* C4: Auto-fallback disabled: an operation that read mode Real returns the
\* real client's result unchanged (a success=false result included) and
\* rethrows what was thrown, the simulator is invoked only by calls that read
\* mode Simulated, no fallback is taken, and no step other than an explicit
\* mode command changes the mode.
C4_AutoFallbackDisabled ==
    /\ []C4_State
    /\ [][(~autoFallback /\ useMock' # useMock) => ret'.kind = "command"]_vars

\* generateTest got success=false from the real backend and handed it on,
\* the mode being Real
C4_Witness ==
    /\ ~autoFallback
    /\ Returns({"generateTest"})
    /\ ret.by = "real"
    /\ ~ret.value.success
    /\ ~useMock

C5_State ==
    /\ Returns(GatewayOps) =>
          (ret.sawMock => /\ ret.by = "mock"
                          /\ ret.t.kind = "none"
                          /\ ret.value = Mock_call(ret.op, ret.req, ret.env))
    /\ (IF ret.kind \in {"log", "throw"} THEN ret.op \in GatewayOps ELSE FALSE)
          => ~ret.sawMock

\* C5: Simulated mode is terminal for dispatch: an operation that read mode
\* Simulated makes no real call, takes no fallback, never throws and returns
\* the simulator's result unchanged; the step that returns a simulator result
\* (a failure included) ends the call and leaves the mode as it was.
C5_SimulatedTerminal ==
    /\ []C5_State
    /\ [][(IF ret'.kind = "return" /\ ret'.op \in GatewayOps
           THEN ret'.by = "mock" ELSE FALSE)
          => /\ useMock' = useMock
             /\ BagCardinality(inflight') = BagCardinality(inflight) - 1]_vars

\* saveTest read mode Simulated, the simulator failed, and the mode is
\* Simulated
C5_Witness ==
    /\ Returns({"saveTest"})
    /\ ret.sawMock
    /\ ~ret.value.success
    /\ useMock

C6_State ==
    /\ Logs({"checkHealth"}) => /\ ~ret.sawMock
                                /\ autoFallback
                                /\ ~ret.value.isHealthy
                                /\ useMock
                                /\ AwaitsSimulator
    /\ Returns({"checkHealth"}) =>
          /\ ret.by = "mock" => ret.value = Mock_checkHealth(ret.env.draw)
          /\ ret.by = "real" => /\ ret.value = Real_checkHealth(ret.t)
                                /\ autoFallback => ret.value = TRUE

C6_HealthyLeavesMode ==
    [][(IF ret'.kind = "return" /\ ret'.op = "checkHealth"
        THEN ret'.by = "real" ELSE FALSE) => useMock' = useMock]_vars

\* the step is a call of a gateway operation: the call reads the mode
CallStep == BagCardinality(inflight') = BagCardinality(inflight) + 1

\* C6 as stated: checkHealth flips permanently: once checkHealth has set the
\* mode to Simulated (returning the simulator's probe result), every later
\* call finds the mode Simulated; a healthy real probe returns true and
\* leaves the mode as it was.
C6_AsStated ==
    /\ []C6_State
    /\ C6_HealthyLeavesMode
    /\ [][(healthFlip \in {"flipped", "reverted"} /\ CallStep) => useMock]_vars

\* C6: checkHealth flips the mode for good: once checkHealth has set the mode
\* to Simulated (returning the simulator's probe result), the mode is
\* Simulated in every later state, and so for every later call, as long as
\* enableReal() has not been called; a healthy real probe returns true and
\* leaves the mode as it was.
C6_CheckHealthFlips ==
    /\ []C6_State
    /\ C6_HealthyLeavesMode
    /\ [](healthFlip = "flipped" => useMock)
    /\ [][(healthFlip = "flipped" /\ CallStep) => useMock]_vars

\* after a flip by checkHealth, a later operation read mode Simulated and was
\* served by the simulator
C6_Witness ==
    /\ healthFlip = "flipped"
    /\ Returns(Operations)
    /\ ret.sawMock
    /\ ret.by = "mock"

\* a step that starts, advances or ends a getServiceStatus call
StatusStep ==
    \E c \in BagToSet(inflight) \cup BagToSet(inflight') :
        /\ c.op = "getServiceStatus"
        /\ CopiesIn(c, inflight) # CopiesIn(c, inflight')

\* C7: getServiceStatus is read-only: it returns {currentService,
\* realServiceHealthy, mockServiceHealthy, autoFallback} from the two probes
\* and the gateway's fields, and none of its steps changes the mode or the
\* auto-fallback setting.
C7_StatusReadOnly ==
    /\ [](Returns({"getServiceStatus"}) =>
            /\ ret.value.currentService = (IF useMock THEN "mock" ELSE "real")
            /\ ret.value.autoFallback = autoFallback
            /\ ret.value.mockServiceHealthy = Mock_checkHealth(ret.env.draw)
            /\ ret.value.realServiceHealthy => ret.t.kind = "reply")
    /\ [][StatusStep => (useMock' = useMock /\ autoFallback' = autoFallback)]_vars

\* the mode is Real, auto-fallback is on and the status reports the real
\* backend unhealthy
C7_Witness ==
    /\ Returns({"getServiceStatus"})
    /\ ~useMock
    /\ autoFallback
    /\ ~ret.value.realServiceHealthy
    /\ ret.value.currentService = "real"

\* generateTest("test login functionality") that read mode Real, met a
\* transport fault, with auto-fallback on and error injection off
C8_Scenario(kind) ==
    IF ret.kind = kind /\ ret.op = "generateTest"
    THEN /\ ret.req.requirements = ReqTestLogin
         /\ ~ret.sawMock
         /\ ret.t.kind = "axios"
         /\ autoFallback
         /\ ~enableRandomErrors
    ELSE FALSE

\* C8: Scenario A: real backend down, auto-fallback on, injection off:
\* generateTest("test login functionality") sets the mode to Simulated and
\* returns success=true with the login template as code (titled with the
\* requirement), validation.valid = true and no issues; its return leaves the
\* mode as the fallback set it.
C8_ScenarioA ==
    /\ [](C8_Scenario("log") => useMock)
    /\ [](C8_Scenario("return") =>
            /\ ret.by = "mock"
            /\ ret.value.success
            /\ ret.value.code = <<TemplateHead>> \o ReqTestLogin \o <<LoginBody>>
            /\ ret.value.validation.valid
            /\ ret.value.validation.issues = <<>>)
    /\ [][C8_Scenario("return")' => useMock' = useMock]_vars

C8_Witness == C8_Scenario("return") /\ useMock

\* the claim's priority order
C9_Order ==
    <<[category |-> "Authentication", keywords |-> {kwLogin, kwAuth}],
      [category |-> "Navigation", keywords |-> {kwNav, kwMenu}],
      [category |-> "FormSubmission", keywords |-> {kwForm, kwSubmit}],
      [category |-> "Commerce", keywords |-> {kwShop, kwCart, kwStore}]>>

C9_Category(lowered) ==
    LET hits == {i \in 1..Len(C9_Order) :
                    \E k \in C9_Order[i].keywords : includes(lowered, k)}
    IN  IF hits = {} THEN "Generic"
        ELSE C9_Order[CHOOSE i \in hits : \A j \in hits : i <= j].category

\* the category whose template an artifact is
C9_CodeCategory(code) ==
    CASE LoginBody \in Range(code) -> "Authentication"
      [] NavigationBody \in Range(code) -> "Navigation"
      [] FormBody \in Range(code) -> "FormSubmission"
      [] ShoppingBody \in Range(code) -> "Commerce"
      [] DefaultBody \in Range(code) -> "Generic"

\* C9: Classification priority: the template of every artifact the simulator
\* generates is the first match, on the lower-cased requirement text, in the
\* order {login, auth}, {nav, menu}, {form, submit}, {shop, cart, store},
\* otherwise Generic; so it is the same for texts that differ in letter case
\* only.
C9_ClassificationPriority ==
    (IF simRet.kind = "return" /\ simRet.op = "generateTest"
     THEN simRet.value.success ELSE FALSE)
    => C9_CodeCategory(simRet.value.code)
         = C9_Category(toLowerCase(simRet.req.requirements))

\* a text with capitals containing both "cart" and, after it, "login" got the
\* Authentication template
C9_Witness ==
    /\ simRet.kind = "return"
    /\ simRet.op = "generateTest"
    /\ simRet.value.success
    /\ simRet.req.requirements # toLowerCase(simRet.req.requirements)
    /\ includes(toLowerCase(simRet.req.requirements), kwCart \o kwLogin)
    /\ C9_CodeCategory(simRet.value.code) = "Authentication"

SimReturns(op) == IF simRet.kind = "return" THEN simRet.op = op ELSE FALSE

\* min(n, 5) entries, none for n <= 0
C11_Size(n) == IF n <= 0 THEN 0 ELSE IF n <= 5 THEN n ELSE 5

\* C11: Simulated search size and scores: with error injection disabled,
\* searchTests(query, n) of the simulator returns exactly min(n, 5) entries
\* for n >= 0 and none for n <= 0; the i-th entry (0-based) has score
\* 0.9 - 0.1*i (scores are in tenths) and a content that contains the query,
\* so the scores are strictly decreasing; for n = 3 they are 0.9, 0.8, 0.7.
C11_SearchSizeAndScores ==
    (SimReturns("searchTests") /\ ~enableRandomErrors) =>
        LET entries == simRet.value
            n == simRet.req.numResults
        IN  /\ Len(entries) = C11_Size(n)
            /\ \A k \in 1..Len(entries) :
                  /\ entries[k].score = 9 - (k - 1)
                  /\ includes(entries[k].content, simRet.req.query)
            /\ \A j, k \in 1..Len(entries) :
                  j < k => entries[j].score > entries[k].score
            /\ n = 3 => [k \in 1..Len(entries) |-> entries[k].score] = <<9, 8, 7>>

\* searchTests(query, 3) answered three entries, injection being disabled
C11_Witness ==
    /\ SimReturns("searchTests")
    /\ ~enableRandomErrors
    /\ simRet.req.numResults = 3
    /\ Len(simRet.value) = 3

\* what the claims about the analysis call a navigation call, an interaction
\* call and an assertion call
HasNavigation(code) == includes(code, <<"page.goto">>)
HasInteraction(code) ==
    includes(code, <<"page.click">>) \/ includes(code, <<"page.fill">>)
HasAssertion(code) == includes(code, <<"expect", "(">>)

\* the improvement notes about assertions missing after an interaction
AssertionNotes ==
    {"Add assertions after click actions", "Verify form submissions with assertions"}

\* C12: Scenario C: for every test code with a navigation call (page.goto)
\* and an interaction call (page.click or page.fill) but no assertion call,
\* analyzeTest of the simulator returns at least one improvement note about
\* assertions missing after the interaction, and a quality that is Good or
\* Needs Improvement, never Excellent.
C12_ScenarioC ==
    (IF SimReturns("analyzeTest")
     THEN /\ simRet.value.success
          /\ HasNavigation(simRet.req.testCode)
          /\ HasInteraction(simRet.req.testCode)
          /\ ~HasAssertion(simRet.req.testCode)
     ELSE FALSE)
    => /\ Range(simRet.value.analysis.improvements) \cap AssertionNotes # {}
       /\ simRet.value.analysis.quality \in {"Good", "Needs Improvement"}

\* the markers whose absence earns a suggestion: the import form of the test
\* declaration, a navigation call, an assertion call
C13_Markers ==
    {<<"import { test, ", "expect", " }">>, <<"page.goto">>, <<"expect", "(">>}

\* the risky patterns: an awaited click, a fill, in a code where the word
\* expect does not occur
C13_Interactions == {<<"await ", "page.click">>, <<"page.fill">>}

C13_Missing(code) == Cardinality({m \in C13_Markers : ~includes(code, m)})
C13_Risky(code) ==
    IF includes(code, <<"expect">>) THEN 0
    ELSE Cardinality({m \in C13_Interactions : includes(code, m)})

C14_WellFormedAnalysis ==
    (IF SimReturns("analyzeTest")
     THEN /\ ~enableRandomErrors
          /\ \A m \in C13_Markers : includes(simRet.req.testCode, m)
     ELSE FALSE)
    => /\ simRet.value.success
       /\ simRet.value.analysis.quality = "Excellent"
       /\ simRet.value.analysis.coverage = "High"
       /\ simRet.value.analysis.suggestions = <<>>
       /\ simRet.value.analysis.improvements = <<>>

\* a well-formed code that also clicks and fills was analysed
C14_Witness ==
    /\ SimReturns("analyzeTest")
    /\ ~enableRandomErrors
    /\ \A m \in C13_Markers \cup C13_Interactions : includes(simRet.req.testCode, m)
    /\ simRet.value.success
    /\ simRet.value.analysis.quality = "Excellent"

\* C15: Result well-formedness: every result that generateTest or modifyTest
\* of the gateway returns to the caller, whichever backend served it and
\* whatever the real backend sent, has a non-empty code when success=true
\* and an error when success=false.
C15_ResultWellFormed ==
    Returns({"generateTest", "modifyTest"}) =>
        IF ret.value.success
        THEN IF "code" \in DOMAIN ret.value THEN ret.value.code # <<>> ELSE FALSE
        ELSE "error" \in DOMAIN ret.value

\* C16: Backend-independent save shape: the outcome saveTest of the gateway
\* returns has the fields of { success, filePath?, error? } whichever backend
\* served it, and whenever success=true the saved path is in its filePath
\* field.
C16_SaveShape ==
    Returns({"saveTest"}) =>
        /\ DOMAIN ret.value \subseteq {"success", "filePath", "error"}
        /\ ret.value.success => "filePath" \in DOMAIN ret.value

\* the message each operation declares an injected failure with
C17_Message ==
    [generateTest |-> "Mock AI service temporarily unavailable",
     analyzeTest |-> "Mock analysis service temporarily unavailable",
     modifyTest |-> "Mock modification service temporarily unavailable",
     saveTest |-> "Mock save service temporarily unavailable"]

\* the direct simulator call that has just answered is one of ops, error
\* injection is enabled, and the call's own draw selects (or not) failure
C17_Drawn(ops, fails) ==
    IF simRet.kind = "return"
    THEN /\ simRet.op \in ops
         /\ enableRandomErrors
         /\ (simRet.env.draw < errorRate) = fails
    ELSE FALSE

C17_Declared(ops) ==
    /\ C17_Drawn(ops, TRUE) =>
          IF "success" \in DOMAIN simRet.value
          THEN /\ ~simRet.value.success
               /\ simRet.value.error = C17_Message[simRet.op]
          ELSE FALSE
    /\ C17_Drawn(ops, FALSE) =>
          IF "error" \in DOMAIN simRet.value
          THEN simRet.value.error # C17_Message[simRet.op]
          ELSE TRUE

\* C17 as stated: injected failures are declared failures: with error
\* injection enabled, each of generateTest, analyzeTest, modifyTest,
\* searchTests and saveTest whose own draw selects failure returns
\* success=false with the error message of that operation, and a call whose
\* own draw does not select failure returns no such failure.
C17_AsStated ==
    C17_Declared({"generateTest", "analyzeTest", "modifyTest", "searchTests", "saveTest"})

\* C17: the same for generateTest, analyzeTest, modifyTest and saveTest;
\* searchTests whose draw selects failure returns the empty list, which
\* carries no success flag and no message.
C17_InjectedFailures ==
    /\ C17_Declared({"generateTest", "analyzeTest", "modifyTest", "saveTest"})
    /\ C17_Drawn({"searchTests"}, TRUE) => simRet.value = <<>>
    /\ (C17_Drawn({"searchTests"}, FALSE) /\ simRet.req.numResults > 0)
          => simRet.value # <<>>

\* searchTests(query, n) with n > 0 drew a failure and answered the empty list
C17_Witness ==
    /\ C17_Drawn({"searchTests"}, TRUE)
    /\ simRet.req.numResults > 0
    /\ simRet.value = <<>>

\* the step is the mode command name
CommandStep(name) == IF ret'.kind = "command" THEN ret'.op = name ELSE FALSE

\* C18: Explicit mode commands are idempotent: enableMock() makes the mode
\* Simulated and enableReal() makes it Real whatever it was, neither changes
\* the auto-fallback setting nor anything else of the gateway, so a command
\* called in its target mode (or a second time in a row) changes nothing;
\* getCurrentService() reports 'mock' exactly when the mode is Simulated.
C18_IdempotentCommands ==
    /\ [][CommandStep("enableMock") => useMock']_vars
    /\ [][CommandStep("enableReal") => ~useMock']_vars
    /\ [][(CommandStep("enableMock") \/ CommandStep("enableReal")) =>
            /\ autoFallback' = autoFallback
            /\ inflight' = inflight
            /\ mockVars' = mockVars]_vars
    /\ [](Returns({"getCurrentService"}) => ((ret.value = "mock") <=> useMock))

\* enableMock() has just been called in a mode that checkHealth had already
\* made Simulated
C18_Witness ==
    /\ ret.kind = "command"
    /\ ret.op = "enableMock"
    /\ healthFlip = "flipped"
    /\ useMock

AllOps == GatewayOps \cup {"getServiceStatus"}

\* the backend call the operation c is suspended on has settled in this step
Settles(c, backend) ==
    c.pc = backend /\ CopiesIn(c, inflight') < CopiesIn(c, inflight)

Ends == BagCardinality(inflight') = BagCardinality(inflight) - 1

\* C19: Single fallback hop: an operation issues at most one call to the real
\* backend and at most one to the simulator, and always has exactly one of
\* them pending; when its simulator call settles, failed or not, it returns
\* in that step; when its real call settles it returns or throws in that
\* step, or issues its one simulator call.
C19_SingleHop ==
    /\ [](\A c \in Calls :
            /\ c.realCalls <= 1 /\ c.mockCalls <= 1
            /\ c.pc = "real" => c.realCalls = 1 /\ c.mockCalls = 0
            /\ c.pc = "mock" => c.mockCalls = 1)
    /\ [](Completes(AllOps) => ret.realCalls <= 1 /\ ret.mockCalls <= 1)
    /\ [][\A c \in Calls :
            /\ Settles(c, "mock") => (ret'.kind = "return" /\ Ends)
            /\ Settles(c, "real") =>
                  \/ ret'.kind \in {"return", "throw"} /\ Ends
                  \/ \E d \in BagToSet(inflight') :
                        /\ d = [c EXCEPT !.pc = "mock", !.t = d.t, !.real = d.real,
                                         !.mockCalls = 1]
                        /\ CopiesIn(d, inflight') = CopiesIn(d, inflight) + 1
                        /\ BagCardinality(inflight') = BagCardinality(inflight)]_vars

\* saveTest read mode Real, fell back, the simulator failed, and the failure
\* was returned after one call to each backend
C19_Witness ==
    /\ Returns({"saveTest"})
    /\ ~ret.sawMock
    /\ ret.by = "mock"
    /\ ~ret.value.success
    /\ ret.realCalls = 1
    /\ ret.mockCalls = 1

\* the backend answered the probe with status "healthy" within the timeout
C20_Healthy(t) ==
    IF t.kind = "reply" THEN t.data = [status |-> "healthy"] ELSE FALSE

\* C20: Real health probe never throws: the probe of the real client is true
\* exactly when the backend answers with status "healthy", and false on a
\* timeout, a refused connection, an HTTP error status or a reply without a
\* healthy status; checkHealth and getServiceStatus of the gateway never
\* throw.
C20_ProbeNeverThrows ==
    /\ Completes({"checkHealth", "getServiceStatus"}) => ret.kind = "return"
    /\ Returns({"checkHealth"}) =>
          (ret.by = "real" => (ret.value <=> C20_Healthy(ret.t)))
    /\ Logs({"checkHealth"}) =>
          (~ret.value.isHealthy /\ ~C20_Healthy(ret.t))
    /\ Returns({"getServiceStatus"}) =>
          (ret.t.kind = "axios" => ~ret.value.realServiceHealthy)

\* with auto-fallback off, checkHealth returned false after the probe timed
\* out
C20_Witness ==
    /\ Returns({"checkHealth"})
    /\ ret.by = "real"
    /\ ret.t = TimedOut
    /\ ret.value = FALSE

C21_Bodies == {LoginBody, NavigationBody, FormBody, ShoppingBody, DefaultBody}

\* the title of an artifact: what stands between test(' and ', async
C21_TitleOf(code) ==
    LET j == CHOOSE j \in 2..Len(code) :
                 code[j] \in C21_Bodies /\ \A k \in 2..(j - 1) : code[k] \notin C21_Bodies
    IN  SubSeq(code, 2, j - 1)

\* a character of the title for a character of the requirement text
C21_Char(ch) ==
    IF ch \in Range(LowerSeq) \cup Digits THEN ch
    ELSE IF ch \in Range(UpperSeq)
    THEN LowerSeq[CHOOSE i \in 1..Len(UpperSeq) : UpperSeq[i] = ch]
    ELSE " "

\* title is text with capitals lowered and every other character that is no
\* lower-case letter or digit turned into a blank, less the blanks at both ends
C21_Sanitised(text, title) ==
    \E k \in 0..(Len(text) - Len(title)) :
        /\ \A i \in 1..Len(title) : title[i] = C21_Char(text[k + i])
        /\ \A i \in (1..k) \cup ((k + Len(title) + 1)..Len(text)) :
              C21_Char(text[i]) = " "
        /\ IF title = <<>> THEN TRUE
           ELSE title[1] # " " /\ title[Len(title)] # " "

C21_Generated ==
    IF SimReturns("generateTest") THEN simRet.value.success ELSE FALSE

\* C21 as stated: the title of every generated artifact is the requirement
\* text as the caller supplied it.
C21_AsStated ==
    C21_Generated => C21_TitleOf(simRet.value.code) = simRet.req.requirements

\* C21: Artifact title: for every requirement text and every category, the
\* title of the generated artifact is the requirement text in lower case, with
\* every character that is no letter or digit replaced by a blank and the
\* blanks at both ends removed; it is the requirement text itself when that
\* consists of lower-case letters, digits and inner blanks only.
C21_ArtifactTitle ==
    C21_Generated =>
        /\ C21_Sanitised(simRet.req.requirements, C21_TitleOf(simRet.value.code))
        /\ (\A i \in 1..Len(simRet.req.requirements) :
               simRet.req.requirements[i] \in AlnumLower)
             => C21_TitleOf(simRet.value.code) = simRet.req.requirements

\* a requirement text with a leading blank and a hyphen got a title that
\* differs from it
C21_Witness ==
    /\ C21_Generated
    /\ simRet.req.requirements = <<" ">> \o <<"x","-","1">>
    /\ C21_TitleOf(simRet.value.code) = <<"x"," ","1">>

\* the value given for field in the construction config (none: not given)
C23_Given(field) ==
    IF field \in DOMAIN mockConfig THEN {mockConfig[field]} ELSE {}

\* the answer of the simulator is an injected failure
C23_Injected ==
    CASE simRet.op = "checkHealth" -> ~simRet.value
      [] simRet.op = "searchTests" ->
            simRet.value = <<>> /\ simRet.req.numResults > 0
      [] OTHER ->
            IF simRet.value.success THEN FALSE
            ELSE simRet.value.error \in
                    {"Mock AI service temporarily unavailable",
                     "Mock analysis service temporarily unavailable",
                     "Mock modification service temporarily unavailable",
                     "Mock save service temporarily unavailable"}

\* C23: Configured simulator parameters are honoured over their whole range:
\* when an operation of the simulator answers, the responseDelay and the
\* errorRate in force are the ones given at construction, the value 0
\* included; with enableRandomErrors = true and errorRate = 0 no operation
\* reports an injected failure.
C23_ConfigHonoured ==
    simRet.kind = "return" =>
        /\ \A given \in C23_Given("responseDelay") : responseDelay = given
        /\ \A given \in C23_Given("errorRate") : errorRate = given
        /\ (enableRandomErrors /\ C23_Given("errorRate") = {0}) => ~C23_Injected

\* C24: Simulator always available: with error injection disabled the health
\* probe of the simulator is true on every call, so checkHealth of the gateway
\* answered by the simulator (in Simulated mode or after a fallback) returns
\* true and getServiceStatus reports mockServiceHealthy = true; the probe is
\* false only with error injection enabled, when its draw selects failure.
C24_SimulatorAvailable ==
    /\ (IF Returns({"checkHealth"}) THEN ret.by = "mock" ELSE FALSE) =>
          /\ ~enableRandomErrors => ret.value
          /\ ~ret.value => (enableRandomErrors /\ ret.env.draw < errorRate)
    /\ Returns({"getServiceStatus"}) =>
          /\ ~enableRandomErrors => ret.value.mockServiceHealthy
          /\ ~ret.value.mockServiceHealthy =>
                (enableRandomErrors /\ ret.env.draw < errorRate)

\* in Simulated mode, with error injection disabled, checkHealth returned true
C24_Witness ==
    /\ Returns({"checkHealth"})
    /\ ret.sawMock
    /\ ~enableRandomErrors
    /\ ret.value = TRUE

C25_Descending(list) ==
    \A i \in 1..(Len(list) - 1) : list[i].score >= list[i + 1].score

\* C25: Search result ordering: the list searchTests of the gateway returns is
\* in descending score order; served by the real backend it is the backend's
\* list, entry by entry, so entries of equal score keep the backend's order;
\* served by the simulator its scores strictly decrease.
C25_SearchOrdering ==
    Returns({"searchTests"}) =>
        /\ C25_Descending(ret.value)
        /\ ret.by = "real" =>
              IF ret.t.kind = "reply" THEN ret.value = ret.t.data.results
              ELSE ret.value = <<>>
        /\ ret.by = "mock" =>
              \A i \in 1..(Len(ret.value) - 1) :
                  ret.value[i].score > ret.value[i + 1].score

\* the real backend served three entries, the first two of equal score
C25_Witness ==
    /\ Returns({"searchTests"})
    /\ ret.by = "real"
    /\ Len(ret.value) = 3
    /\ ret.value[1].score = ret.value[2].score
    /\ ret.value[1] # ret.value[2]
    /\ ret.value[3].score < ret.value[2].score

\* the calls that entered inflight in this step
C26_Started ==
    {c \in BagToSet(inflight') : CopiesIn(c, inflight') > CopiesIn(c, inflight)}

C26_Failure(op, value) ==
    IF op = "checkHealth" THEN ~value ELSE C3_RealFailure(op, value)

\* C26: Visibility of a flip under concurrency: with auto-fallback enabled the
\* mode, once Simulated, stays Simulated through every step but enableReal, and
\* every routed operation that reads the mode then awaits the simulator
\* without having called the real backend; an operation that read Real calls
\* the real backend at most once, and with auto-fallback enabled it never
\* hands a real failure to its caller: it returns, and what it returns after
\* a failed real call is the simulator's answer.
C26_FlipVisibility ==
    /\ [](\A c \in Calls : c.op \in GatewayOps =>
              /\ c.realCalls <= 1
              /\ c.sawMock => (c.pc = "mock" /\ c.realCalls = 0))
    /\ [][(useMock /\ autoFallback /\ ~CommandStep("enableReal")) => useMock']_vars
    /\ [][(useMock /\ CallStep) =>
            \A c \in C26_Started :
                c.op \in GatewayOps => (c.sawMock /\ c.pc = "mock")]_vars
    /\ [](Completes(GatewayOps) =>
              /\ ret.realCalls <= 1
              /\ ret.sawMock => (ret.realCalls = 0 /\ ret.by = "mock")
              /\ (autoFallback /\ ~ret.sawMock) =>
                    /\ ret.kind = "return"
                    /\ ret.by = "real" => ~C26_Failure(ret.op, ret.value))

\* an operation has just set the mode to Simulated while another one, which
\* had read Real, is still waiting for the real backend
C26_Witness ==
    /\ Logs(GatewayOps)
    /\ useMock
    /\ \E c \in Calls : ~c.sawMock /\ c.pc = "real" /\ c.op \in GatewayOps

\* the mode goes from Real to Simulated in this step
C27_Flip == ~useMock /\ useMock'

\* what the real backend answered, as the fallback line e carries it, is a
\* failure: an unhealthy probe, an empty list, success=false or a throw
C27_Observed(e) ==
    IF e.op = "checkHealth" THEN ~e.value.isHealthy
    ELSE IF e.op = "searchTests" THEN e.value.results = <<>>
    ELSE IF e.t.kind = "axios" \/ e.value = Null THEN TRUE
    ELSE ~e.value.success

\* C27 as stated: the mode goes from Real to Simulated only by enableMock() or
\* by the fallback of an operation that was not in flight when enableReal()
\* was called.
C27_AsStated ==
    [][C27_Flip =>
          \/ CommandStep("enableMock")
          \/ IF ret'.kind = "log" THEN ~ret'.older ELSE FALSE]_vars

\* C27: after enableReal() the mode is Real, and it goes from Real to
\* Simulated only by enableMock() or by the fallback of an operation or health
\* check that had read the mode Real and observes a failure of the real
\* backend with auto-fallback enabled, whether that operation started before
\* or after the enableReal().
C27_RealUntilFailure ==
    /\ [][CommandStep("enableReal") => ~useMock']_vars
    /\ [][C27_Flip =>
            \/ CommandStep("enableMock")
            \/ IF ret'.kind = "log"
               THEN /\ ~ret'.sawMock
                    /\ ret'.by = "real"
                    /\ autoFallback
                    /\ C27_Observed(ret')
               ELSE FALSE]_vars

\* an operation that was in flight when enableReal() was called has fallen
\* back and the mode is Simulated
C27_Witness ==
    /\ Logs(GatewayOps)
    /\ ret.older
    /\ useMock

\* the caller of an operation stops waiting in this step
C28_AbandonStep ==
    \E c \in Calls :
        /\ ~c.abandoned
        /\ inflight' = Add([c EXCEPT !.abandoned = TRUE]) (-) SetToBag({c})

\* the real call of an abandoned operation settles in this step
C28_AbandonedSettles ==
    /\ ret = NoRet
    /\ IF ret'.kind \in {"log", "return", "throw"}
       THEN ret'.op \in GatewayOps /\ ret'.abandoned /\ ret'.by = "real"
       ELSE FALSE

C28_Failed(e) ==
    IF e.kind = "throw" THEN TRUE
    ELSE IF e.kind = "log" THEN C27_Observed(e)
    ELSE C26_Failure(e.op, e.value)

\* C28 as stated: an operation whose caller has abandoned it never changes the
\* mode.
C28_AsStated ==
    [][C28_AbandonedSettles => useMock' = useMock]_vars

\* C28: Abandoning a pending operation changes nothing of the gateway, and the
\* gateway does not notice it: when the real call of an abandoned operation
\* settles, the mode becomes Simulated if the call failed and auto-fallback is
\* enabled, and is left as it was otherwise, as for an operation that is
\* awaited.
C28_AbandonedCalls ==
    /\ [][C28_AbandonStep =>
            /\ useMock' = useMock
            /\ autoFallback' = autoFallback
            /\ ret' = ret
            /\ BagCardinality(inflight') = BagCardinality(inflight)]_vars
    /\ [][C28_AbandonedSettles =>
            useMock' = IF autoFallback /\ C28_Failed(ret') THEN TRUE
                       ELSE useMock]_vars

\* an abandoned operation has fallen back and the mode is Simulated
C28_Witness ==
    /\ Logs(GatewayOps)
    /\ ret.abandoned
    /\ ret.t.kind = "axios"
    /\ useMock

\* the real client answered an operation whose call to the backend was
\* rejected (no connection, timeout, HTTP error status)
C29_Fault ==
    IF ret.kind \in {"log", "return", "throw"}
    THEN ret.op \in Operations /\ ret.by = "real" /\ ret.t.kind = "axios"
    ELSE FALSE

\* C29: Real client normalisation: when the call to the real backend is
\* rejected, generateTest, analyzeTest, modifyTest and saveTest of the real
\* client return success=false with a non-empty error text (the detail of the
\* HTTP response, or else the message of the fault) and searchTests returns
\* the empty list; nothing is thrown to the gateway, which throws only on a
\* reply it cannot read.
C29_ClientNormalises ==
    /\ C29_Fault =>
          /\ ret.kind # "throw"
          /\ IF ret.op = "searchTests"
             THEN (IF ret.kind = "log" THEN ret.value.results ELSE ret.value) = <<>>
             ELSE /\ DOMAIN ret.value = {"success", "error"}
                  /\ ~ret.value.success
                  /\ ret.value.error # ""
                  /\ ret.value.error \in {ret.t.detail, ret.t.message}
                  /\ ret.t.detail # "" => ret.value.error = ret.t.detail
    /\ ret.kind = "throw" => ret.t.kind = "reply"

\* with auto-fallback off, generateTest returned the record the real client
\* made of a refused connection
C29_Witness ==
    /\ C29_Fault
    /\ ret.kind = "return"
    /\ ret.op = "generateTest"
    /\ ret.t = Refused
    /\ ret.value = [success |-> FALSE, error |-> "connect ECONNREFUSED 127.0.0.1:8000"]

\* C22: in the generate command run with the approval workflow enabled, a
\* generated test is posted to the save endpoint only after the user has
\* approved it: every save request the command has posted was posted when the
\* user had typed "y".
C22_ApprovalBeforeSave ==
    IF cli.pc = "none" THEN TRUE
    ELSE IF cli.cmd = "generate" /\ ApprovalWorkflow(cli.options)
    THEN \A i \in DOMAIN cli.sent :
            cli.sent[i].endpoint = "save-test" => cli.sent[i].typed = "y"
    ELSE TRUE

\* C30: in the generate and search commands a failed request is classified in
\* the order connection refused, HTTP 503, other API error, and a fault that
\* is no HTTP fault as unexpected error; the command prints the message of
\* that class and of no other class, ends with exit status 1 and posts no
\* further request.
C30_Class(error) ==
    IF error.kind # "axios" THEN "unexpected"
    ELSE IF error.code = "ECONNREFUSED" THEN "refused"
    ELSE IF error.status = 503 THEN "unavailable"
    ELSE "api"

C30_Message ==
    [refused |-> "Cannot connect to AI service.",
     unavailable |-> "AI Service not available.",
     api |-> "API Error: ",
     unexpected |-> "Unexpected error: "]

C30_Printed(line) == \E i \in DOMAIN cli.out : cli.out[i] = line

C30_Classified ==
    IF cli.pc # "exited" THEN TRUE
    ELSE \A error \in cli.caught :
            /\ cli.cmd \in {"generate", "search"}
            /\ \A class \in DOMAIN C30_Message :
                  C30_Printed(C30_Message[class]) <=> class = C30_Class(error)
            /\ cli.exit = {1}

C30_NoFurtherRequest ==
    IF cli.pc = "none" THEN TRUE
    ELSE IF cli.pc = "exited" THEN cli' = cli
    ELSE IF cli'.pc = "exited" /\ cli'.caught # {} THEN cli'.sent = cli.sent
    ELSE TRUE

C30_FaultClassification == []C30_Classified /\ [][C30_NoFurtherRequest]_vars

\* reached: the generate command has exited on a 503 answer to its save
\* request
C30_Witness ==
    IF cli.pc # "exited" THEN FALSE
    ELSE /\ cli.cmd = "generate"
         /\ cli.caught = {CliNotReady}
         /\ Len(cli.sent) = 2
         /\ cli.exit = {1}

\* C31: every simulator operation first waits the simulator's delay, exactly
\* once, then draws at most once, and only then touches the file system or
\* returns: in the record of what the call did, the first entry is the wait
\* for responseDelay, no other entry is a wait, at most one entry is a draw,
\* it comes right after the wait, the return is the last entry and the only
\* return, and only saveTest goes to the file system.
C31_At(name) == {i \in DOMAIN simRet.trace : simRet.trace[i].call = name}

C32_Generated ==
    IF simRet = NoRet THEN FALSE
    ELSE IF simRet.op # "generateTest" THEN FALSE
    ELSE simRet.value.success

C32_Embedded(context) ==
    IF context = Undefined THEN <<"No additional context provided">>
    ELSE IF context = <<>> THEN <<"No additional context provided">>
    ELSE context

C32_ContextUse ==
    IF ~C32_Generated THEN TRUE
    ELSE LET code == simRet.value.code
             requirements == simRet.req.requirements
         IN  IF SelectTemplate(requirements) # "default"
             THEN \A context \in Contexts :
                     Mock_generateTest([requirements |-> requirements,
                                        context |-> context], simRet.env.draw).code = code
             ELSE /\ includes(code, C32_Embedded(simRet.req.context))
                  /\ \A context \in Contexts :
                        C32_Embedded(context) # C32_Embedded(simRet.req.context)
                        => ~includes(code, C32_Embedded(context))

\* reached: a Generic requirement was generated with a context, and the
\* artifact holds it
C32_Witness ==
    IF ~C32_Generated THEN FALSE
    ELSE /\ SelectTemplate(simRet.req.requirements) = "default"
         /\ simRet.req.context = SomeContext
         /\ includes(simRet.value.code, SomeContext)

\* C33: a successful real call has no side effect on the gateway: when the
\* real backend answers an operation with success=true (a non-empty list for
\* searchTests), the step that takes the answer returns it unchanged to the
\* caller, starts no simulator call, and leaves the mode and the auto-fallback
\* setting as they were, with auto-fallback enabled or not.
C33_Success(op, result) ==
    IF op = "searchTests" THEN result # <<>>
    ELSE IF result = Null THEN FALSE
    ELSE IF "success" \in DOMAIN result THEN result.success ELSE FALSE

C33_Answered ==
    IF ret # NoRet THEN FALSE
    ELSE IF ret'.kind \notin {"return", "throw", "log"} THEN FALSE
    ELSE IF ret'.op \notin Operations THEN FALSE
    ELSE IF ret'.by # "real" THEN FALSE
    ELSE C33_Success(ret'.op, Real_call(ret'.op, ret'.t))

C33_Step ==
    C33_Answered =>
        /\ ret'.kind = "return"
        /\ ret'.value = Real_call(ret'.op, ret'.t)
        /\ ret'.mockCalls = 0
        /\ BagCardinality(inflight') = BagCardinality(inflight) - 1
        /\ \A c \in BagToSet(inflight') : c.pc = "mock" => c \in BagToSet(inflight)
        /\ useMock' = useMock
        /\ autoFallback' = autoFallback

C33_SuccessfulRealCall == [][C33_Step]_vars

\* reached: with auto-fallback enabled, generateTest got the real backend's
\* successful result and the mode is Real
C33_Witness ==
    /\ Returns({"generateTest"})
    /\ ret.by = "real"
    /\ ret.value.success
    /\ ret.mockCalls = 0
    /\ autoFallback
    /\ ~useMock

\* a checkHealth call of a gateway with auto-fallback enabled and error
\* injection disabled has returned
C34_DefaultPolicyReturn ==
    /\ Returns({"checkHealth"})
    /\ autoFallback
    /\ ~enableRandomErrors

\* C34 as stated: under the default policy checkHealth returns true, and when
\* it returns either the real backend reported healthy during that call or
\* the mode is Simulated.
C34_AsStated ==
    C34_DefaultPolicyReturn =>
        /\ ret.value = TRUE
        /\ ret.by = "real" \/ useMock

\* C34: under the default policy (auto-fallback enabled, error injection
\* disabled) checkHealth returns true in every reachable state, and when it
\* returns, the real backend reported healthy during that call, or the call
\* read mode Simulated, or the call set the mode to Simulated and the mode is
\* still Simulated unless enableReal() has been called since.
C34_HealthCheckCannotFail ==
    C34_DefaultPolicyReturn =>
        /\ ret.value = TRUE
        /\ IF ret.by = "real" THEN Real_checkHealth(ret.t)
           ELSE IF ret.sawMock THEN ret.realCalls = 0
           ELSE /\ ret.realCalls = 1
                /\ ret.mockCalls = 1
                /\ useMock \/ healthFlip = "reverted"

\* reached: the default instance's checkHealth read mode Real, fell back, and
\* returned true after enableReal() had set the mode to Real again
C34_Witness ==
    /\ C34_DefaultPolicyReturn
    /\ responseDelay = 300
    /\ ~ret.sawMock
    /\ ret.by = "mock"
    /\ ret.value = TRUE
    /\ ~useMock
    /\ healthFlip = "reverted"

\* C35: analysis score floor: the simulator's analysis of any test code has at
\* most 3 suggestions and at most 2 improvements, so the score 100 - 10 per
\* suggestion - 5 per improvement lies between 60 and 100, and the quality is
\* never Needs Improvement and the coverage never Low.
C35_Analysed ==
    IF SimReturns("analyzeTest") THEN simRet.value.success ELSE FALSE

C35_ScoreFloor ==
    C35_Analysed =>
        LET a == simRet.value.analysis
            score == 100 - 10 * Len(a.suggestions) - 5 * Len(a.improvements)
        IN  /\ Len(a.suggestions) <= 3
            /\ Len(a.improvements) <= 2
            /\ score \in 60..100
            /\ a.quality \in {"Excellent", "Good"}
            /\ a.coverage \in {"High", "Medium"}

\* reached: a code with a click and a fill and nothing else is at the floor:
\* coverage Medium with five notes
C35_Witness ==
    IF ~C35_Analysed THEN FALSE
    ELSE /\ Len(simRet.value.analysis.suggestions)
            + Len(simRet.value.analysis.improvements) = 5
         /\ simRet.value.analysis.coverage = "Medium"
         /\ ~includes(simRet.req.testCode, <<"page.goto">>)

\* C36: improvement notes imply the assertion suggestion: whenever the
\* simulator's analysis has an improvement note, the analysed code has no
\* occurrence of 'expect' and the suggestions hold 'Add assertions to verify
\* expected behavior'; a code with 'expect' anywhere, be it only in its import
\* line, gets no improvement note.
C36_Analysed ==
    IF simRet = NoRet THEN FALSE
    ELSE IF simRet.op # "analyzeTest" THEN FALSE
    ELSE simRet.value.success

C36_NotesImplySuggestion ==
    C36_Analysed =>
        LET a == simRet.value.analysis
            code == simRet.req.testCode
        IN  /\ a.improvements # <<>> =>
                  /\ ~includes(code, <<"expect">>)
                  /\ \E i \in DOMAIN a.suggestions :
                        a.suggestions[i] = "Add assertions to verify expected behavior"
            /\ includes(code, <<"expect">>) => a.improvements = <<>>

\* reached: a code with an awaited click whose only 'expect' is in the import
\* line was analysed and has no improvement note
C36_Witness ==
    IF ~C36_Analysed THEN FALSE
    ELSE /\ includes(simRet.req.testCode, <<"import { test, ", "expect", " }">>)
         /\ ~includes(simRet.req.testCode, <<"expect", "(">>)
         /\ includes(simRet.req.testCode, <<"await ", "page.click">>)
         /\ simRet.value.analysis.improvements = <<>>

\* C37: auto-fallback is fixed for the gateway's lifetime: no step of an
\* operation, health check, fallback or mode command changes the setting
\* chosen at construction (enabled when the configuration does not name it);
\* enableMock and enableReal change the mode and nothing else.
C37_AutoFallbackFixed ==
    /\ [][autoFallback' = autoFallback]_vars
    /\ [](mockConfig = [enableRandomErrors |-> TRUE] => autoFallback)
    /\ [][(CommandStep("enableMock") \/ CommandStep("enableReal")) =>
            /\ inflight' = inflight
            /\ mockVars' = mockVars
            /\ histVars' = histVars]_vars

\* reached: enableReal() has been called while an operation that fell back is
\* awaiting the simulator, and auto-fallback is still enabled
C37_Witness ==
    /\ ret.kind = "command"
    /\ ret.op = "enableReal"
    /\ autoFallback
    /\ ~useMock
    /\ \E c \in Calls : c.pc = "mock" /\ ~c.sawMock

\* C38: generate-tests script ordering: the script writes a test file only
\* after a generation result with success=true and only when auto-save or an
\* output file was requested; when the health check returns false or the
\* generation result has success=false it exits with status 1 and writes no
\* file; and enableMock(), when --use-mock is given, is applied before the
\* health check, so that the health check reads mode Simulated.
C38_Requested ==
    script.options.autoSave \/ script.options.outputFile # Undefined

C38_ScriptOrdering ==
    IF script.pc = "none" THEN TRUE
    ELSE /\ script.files # <<>> =>
               /\ Len(script.files) = 1
               /\ C38_Requested
               /\ Len(script.got) = 2
               /\ script.got[1] = TRUE
               /\ script.got[2].success = TRUE
               /\ script.did[Len(script.did)] = "fs"
               /\ script.did[Len(script.did) - 1] = "generateTest"
               /\ script.exit = {0}
         /\ (script.pc = "exited" /\ Len(script.got) = 1) =>
               /\ script.got[1] = FALSE
               /\ script.exit = {1}
               /\ script.files = <<>>
         /\ (IF Len(script.got) = 2 THEN ~script.got[2].success ELSE FALSE) =>
               /\ script.exit = {1}
               /\ script.files = <<>>
         /\ (IF Len(script.got) >= 1 THEN script.got[1] = FALSE ELSE FALSE) =>
               /\ script.pc = "exited"
               /\ Len(script.got) = 1
         /\ script.options.useMock =>
               /\ script.did[1] = "enableMock"
               /\ script.did[2] = "checkHealth"
               /\ \A c \in Calls : c.op = "checkHealth" => c.sawMock /\ c.pc = "mock"
               /\ (IF ret.kind = "return" THEN ret.op = "checkHealth" ELSE FALSE)
                     => ret.sawMock /\ ret.by = "mock"
         /\ ~script.options.useMock => script.did[1] = "checkHealth"

\* reached: run with --use-mock and --auto-save, the script has written the
\* generated test under a time-stamped name and ended with status 0
C38_Witness ==
    IF script.pc # "exited" THEN FALSE
    ELSE /\ script.options.useMock
         /\ script.options.autoSave
         /\ script.options.outputFile = Undefined
         /\ Len(script.files) = 1
         /\ script.files[1].content = script.got[2].code
         /\ script.exit = {0}

\* the search command has listed what it got
C39_Listed ==
    IF cli.pc # "exited" THEN FALSE
    ELSE cli.cmd = "search" /\ cli.caught = {}

\* where the displayed entry i was in the answer of the backend
C39_Pos(i) == CHOOSE k \in DOMAIN cli.got :
                 /\ cli.got[k] = cli.shown[i]
                 /\ \A j \in 1..(k - 1) : cli.got[j] # cli.shown[i]

\* the paths of the answer that match an exclude pattern: test.py ends in
\* .py, venv/t.test.js holds venv (and matches the test pattern .test.js)
C39_ExcludedPaths ==
    {<<"t","e","s","t",".","p","y">>,
     <<"v","e","n","v","/","t",".","t","e","s","t",".","j","s">>}

C39_NodeType(test) ==
    IF "metadata" \in DOMAIN test
    THEN IF "node_type" \in DOMAIN test.metadata
         THEN test.metadata.node_type ELSE "unknown"
    ELSE "unknown"

\* each path at most once, in the order of the answer, none excluded
C39_UniqueInOrder ==
    /\ \A i \in DOMAIN cli.shown : \E k \in DOMAIN cli.got : cli.got[k] = cli.shown[i]
    /\ \A i, j \in DOMAIN cli.shown :
          i < j => /\ FilePathOf(cli.shown[i]) # FilePathOf(cli.shown[j])
                   /\ C39_Pos(i) < C39_Pos(j)
    /\ \A i \in DOMAIN cli.shown : FilePathOf(cli.shown[i]) \notin C39_ExcludedPaths

\* C39 as stated: the displayed results hold each file path at most once, keep
\* the first returned entry of each path, and are in the order of the answer;
\* an entry whose path matches an exclude pattern is never displayed.
C39_AsStated ==
    C39_Listed =>
        /\ C39_UniqueInOrder
        /\ \A i \in DOMAIN cli.shown : \A k \in 1..(C39_Pos(i) - 1) :
              FilePathOf(cli.got[k]) # FilePathOf(cli.shown[i])

\* C39: the displayed results hold each file path at most once, keep for each
\* path the first returned entry that counts as a test file (an earlier entry
\* of the same path that does not, because of its node type, is passed over),
\* and are in the order of the answer; an entry whose path matches an exclude
\* pattern is never displayed even when it also matches a test-file pattern.
C39_Deduplication ==
    C39_Listed =>
        /\ C39_UniqueInOrder
        /\ \A i \in DOMAIN cli.shown : \A k \in 1..(C39_Pos(i) - 1) :
              FilePathOf(cli.got[k]) = FilePathOf(cli.shown[i])
              => ~isTestFile(FilePathOf(cli.got[k]), C39_NodeType(cli.got[k]))

\* reached: the answer held docs/spec first as a function and then as a text
\* chunk, and tests/a.spec.ts twice; the text chunk and the first entry of
\* tests/a.spec.ts are displayed
C39_Witness ==
    IF ~C39_Listed THEN FALSE
    ELSE /\ Len(cli.got) = 3
         /\ Len(cli.shown) = 1
         /\ C39_Pos(1) = 2
         /\ FilePathOf(cli.got[1]) = FilePathOf(cli.shown[1])
         /\ FilePathOf(cli.got[3]) = FilePathOf(cli.shown[1])

====
